---------------------------- MODULE Spec2Model ----------------------------
(***************************************************************************)
(* Model of the Data Alchemist browser client: the data-service adapters   *)
(* (services/data), the AI-fix page (app/ai/fix), the priority-weight      *)
(* forms (app/settings, app/export) and the rule builders                  *)
(* (components/RuleBuilder and components/rule-builders).                  *)
(*                                                                         *)
(* Strings whose characters the code inspects or builds (record IDs) are   *)
(* sequences of one-character strings, so that the template literal that   *)
(* builds an ID and the regular expression that parses it are two          *)
(* different computations.                                                 *)
(***************************************************************************)
EXTENDS Integers, Sequences, FiniteSets, TLC

VARIABLES
    \* ---- services/data: the last adapter call (a pure function of its inputs)
    call,
    \* ---- app/ai/fix/page.tsx: component state of AIFixPage
    selectedEntity,         \* useState<EntityType>('clients')
    validationErrors,       \* data of the ['validation-errors', entity] query
    errors,                 \* useState<ValidationError[]>: the working list
    fixedItems,             \* useState<Set<string>>
    isGeneratingFixes,      \* useState(false)
    validationToFixIdMap,   \* useState<Map<string,string>>
    fixPending,             \* fixErrorsMutation: the variables of the requests in flight
    fixLast,                \* fixErrorsMutation: variables and data of the last success
    gens,                   \* clicks on Generate AI Fixes so far
    fixScript,              \* the answer the backend has ready for a fix-errors request
    applyMut,               \* applyFixMutation: the variables of the pending request
    applied,                \* the entry whose Apply button issued the last request
    invalidated,            \* query keys invalidated by the handler that ran last
    \* ---- app/settings/page.tsx and app/export/page.tsx: the priority-weight form
    priPage,                \* which of the two pages is open
    priorities,             \* useState<RulePriorities>, in hundredths
    currentPriorities,      \* export: data of the ['rule-priorities'] query
    priLoading,             \* settings: `loading`; export: the query is fetching
    updateRequest,          \* the updatePriorities request in flight (its payload)
    \* ---- components/RuleBuilder.tsx and the builder it mounts
    ruleType,               \* useState<string>(rule?.type || '')
    typeSpecificData,       \* useState<any>({})
    form,                   \* the mounted builder's own useState values
    tasksQuery,             \* status of the ['tasks'] query
    workersQuery,           \* status of the ['workers'] query
    listRef,                \* identity of the list array of the last render
    seenDeps,               \* the dependency values the recompute effect last ran with
    scheduled,              \* what asked for the render that is pending
    effectRuns,             \* runs of the recompute effect since the last form change
    \* ---- components/RuleRecommendations.tsx: the ['rule-recommendations'] query
    recQuery,               \* status, data, error, fetching, retries of the query
    recHandled,             \* HTTP status of the answer the current fetch got last
    ignoredRecommendations, \* the keys `${type}-${index}` of the component's Set
    ignoredByUser,          \* the recommendations the user clicked Ignore on
    \* ---- store/useDataStore.ts
    filters,                \* state.filters
    pagination,             \* state.pagination
    storeCall,              \* the store action called last, and the state it found
    \* ---- app/data/[entity]/page.tsx: EntityPage
    routeEntity,            \* params.entity
    searchQuery,            \* useState(searchParams.get('search') || '')
    statusFilter,           \* useState(searchParams.get('status') || '')
    entityData,             \* data of the ['entities', ...] query of the current key
    issued,                 \* the list request issued last, and what caused it
    serverRows,             \* ids of the records the backend holds
    cachedRows,             \* ids of the records of the cached list
    listFetch,              \* the fetch of the list in flight, and its answer
    mutations,              \* update and delete requests in flight
    arrived,                \* the mutations whose responses were handled, in order
    \* ---- app/upload/page.tsx and store/useUploadStore.ts
    uploadPage,             \* the upload page is mounted
    files,                  \* useUploadStore: state.files
    selectedDataType,       \* useState<EntityType>('clients')
    inFlight,               \* variables of the upload and delete mutations in flight
    drops,                  \* files dropped so far
    \* ---- failure handlers of the pages
    errorLog                \* the request whose failure was reported last,
                            \* and the parity of the number of reports

dataVars == <<call>>
fixVars  == <<selectedEntity, validationErrors, errors, fixedItems, isGeneratingFixes,
              validationToFixIdMap, fixPending, fixLast, gens, fixScript, applyMut,
              applied, invalidated>>
priVars  == <<priPage, priorities, currentPriorities, priLoading, updateRequest>>
rbVars   == <<ruleType, typeSpecificData, form, tasksQuery, workersQuery, listRef,
              seenDeps, scheduled, effectRuns>>
recVars   == <<recQuery, recHandled, ignoredRecommendations, ignoredByUser>>
storeVars == <<filters, pagination, storeCall>>
mutVars   == <<serverRows, cachedRows, listFetch, mutations, arrived>>
epVars    == <<routeEntity, searchQuery, statusFilter, entityData, issued, mutVars>>
upVars    == <<uploadPage, files, selectedDataType, inFlight, drops>>
uiVars    == <<recVars, storeVars, epVars, upVars>>
errVars   == <<errorLog>>
vars      == <<dataVars, fixVars, priVars, rbVars, uiVars, errVars>>

-----------------------------------------------------------------------------
(* JavaScript values *)

\* An optional value (a field that may be absent, a query's data before it
\* has loaded): the empty sequence, or the one-element sequence of the value.
None == <<>>

Some(x) == <<x>>

\* An absent number (a missing numeric field).
NoNum == -1

\* An absent string. The code tests optional strings by truthiness only, and
\* undefined and '' are both falsy, so the empty string stands for both.
NoStr == <<>>

\* types/index.ts: EntityType
EntityType == {"clients", "workers", "tasks"}

\* The characters of an entity name, as the template literal writes them.
Chars(e) ==
    CASE e = "clients" -> <<"c","l","i","e","n","t","s">>
      [] e = "workers" -> <<"w","o","r","k","e","r","s">>
      [] e = "tasks"   -> <<"t","a","s","k","s">>

Digits == <<"0","1","2","3","4","5","6","7","8","9">>

DigitSet == {Digits[i] : i \in 1..10}

\* Number.prototype.toString for a natural number: its decimal digits.
RECURSIVE NumToString(_)
NumToString(n) ==
    IF n < 10 THEN <<Digits[n + 1]>>
    ELSE NumToString(n \div 10) \o <<Digits[(n % 10) + 1]>>

Unknown == <<"u","n","k","n","o","w","n">>

\* JavaScript truthiness of a number-or-absent value: 0 and undefined are falsy.
TruthyNum(x) == x # NoNum /\ x # 0

\* JavaScript truthiness of a string-or-absent value: '' and undefined are falsy.
TruthyStr(s) == s # NoStr

\* Math.ceil(a / b) for naturals a and b > 0.
CeilDiv(a, b) == (a + b - 1) \div b

\* Array.prototype.find on a sequence: the index of the first element
\* satisfying Test, or 0.
FirstIndex(seq, Test(_)) ==
    IF \E i \in 1..Len(seq) : Test(seq[i])
    THEN CHOOSE i \in 1..Len(seq) : Test(seq[i]) /\ \A j \in 1..(i - 1) : ~Test(seq[j])
    ELSE 0

\* Sequences over S of length at most n.
SeqsUpTo(S, n) == UNION {[1..k -> S] : k \in 0..n}

\* The report of a failed request by the page's handler (console.error, and
\* toast.error or alert): the failed request, and a parity that changes with
\* every report.
Report(op) ==
    Some([op |-> op, odd |-> IF errorLog = None THEN TRUE ELSE ~errorLog[1].odd])

\* No failure has been reported.
ErrParked == errorLog = None

-----------------------------------------------------------------------------
(* services/data: dataService.getEntities and dataService.getValidationErrors *)

MaxNum   == 2       \* pagination numbers of a response range over 0..MaxNum
MaxItems == 2       \* length of a list response's data
MaxRow   == 10      \* rows of backend validation errors range over 0..MaxRow
MaxErrs  == 2       \* number of validation errors in a response

DefaultPage  == 1
DefaultLimit == 50

Items  == {"r1", "r2"}
Fields == {"Duration", "Skills"}

\* dataService.getEntities, after the request has been answered with `data`
\* (the body of the HTTP response).
getEntities(page, limit, data) ==
    IF data.kind = "object" /\ data.success = "true"
    THEN LET has == data.pagination # None
             pg == data.pagination[1]
             total == IF has /\ TruthyNum(pg.total) THEN pg.total ELSE 0
         IN [items      |-> IF data.data # None THEN data.data[1] ELSE <<>>,
             total      |-> total,
             page       |-> IF has /\ TruthyNum(pg.page) THEN pg.page ELSE page,
             limit      |-> IF has /\ TruthyNum(pg.limit) THEN pg.limit ELSE limit,
             totalPages |-> IF has /\ TruthyNum(pg.totalPages)
                            THEN pg.totalPages
                            ELSE CeilDiv(total, limit)]
    ELSE [items      |-> IF data.kind = "array" THEN data.items ELSE <<>>,
          total      |-> IF data.kind = "array" THEN Len(data.items) ELSE 0,
          page       |-> page,
          limit      |-> limit,
          totalPages |-> 1]

\* The ID template of getValidationErrors: `${entity}-${error.row || 'unknown'}`.
SynthId(entity, row) ==
    Chars(entity) \o <<"-">> \o (IF TruthyNum(row) THEN NumToString(row) ELSE Unknown)

\* dataService.getValidationErrors, after the request has been answered with `data`.
getValidationErrors(entity, data) ==
    IF data.success = "true" /\ data.data # None /\ data.data[1].errors # None
    THEN LET es == data.data[1].errors[1]
         IN [i \in 1..Len(es) |->
                [id            |-> SynthId(entity, es[i].row),
                 field         |-> es[i].field,
                 suggested_fix |-> "null",
                 row           |-> es[i].row]]
    ELSE <<>>

\* Bodies a list endpoint can answer with: the envelope, with or without its
\* data and pagination; an object that is no success envelope; a bare array.
Paginations ==
    [page : 0..MaxNum, limit : 0..MaxNum, total : 0..MaxNum, totalPages : 0..MaxNum]

ListBodies ==
    [kind : {"object"}, success : {"true"},
     data : {Some(d) : d \in SeqsUpTo(Items, MaxItems)} \cup {None},
     pagination : {Some(p) : p \in Paginations} \cup {None}]
    \cup [kind : {"object"}, success : {"false", "undefined"}, data : {None},
          pagination : {None}]
    \cup [kind : {"array"}, items : SeqsUpTo(Items, MaxItems)]

\* Bodies the validate endpoint can answer with; a backend error has a row
\* (or none) and a field.
BackendErrors(rows, fields) == [row : rows \cup {NoNum}, field : fields]

ValidateBodies(rows, fields, n) ==
    [success : {"true"},
     data : {Some([errors |-> e]) :
                e \in {Some(es) : es \in SeqsUpTo(BackendErrors(rows, fields), n)}
                      \cup {None}}]
    \cup [success : {"true", "false"}, data : {None}]

\* No adapter call is being made (the other pages are under study).
DataParked == call = [op |-> "none"]

\* A call of getEntities(entity, page, limit), page and limit given or
\* defaulted, answered with a body; a call of getValidationErrors(entity).
DataInit ==
    call \in [op : {"getEntities"}, page : (1..MaxNum) \cup {DefaultPage},
              limit : (1..MaxNum) \cup {DefaultLimit}, data : ListBodies, out : {None}]
             \cup [op : {"getValidationErrors"}, entity : EntityType,
                   data : ValidateBodies(0..MaxRow, Fields, MaxErrs), out : {None}]

-----------------------------------------------------------------------------
(* app/ai/fix/page.tsx: AIFixPage *)

MaxFixes    == 2    \* number of fixes in a fix-errors response
MaxPageErrs == 1    \* number of validation errors the page loads
MaxGens     == 2    \* clicks on Generate AI Fixes in one visit of the page

maxErrors == 20     \* handleGenerateFixes: errors submitted at most

\* Rows and fields of the validation errors the page loads, and the entities
\* the select is switched between.
PageRows == {4}

PageFields == {"Duration"}

PageEntities == {"clients", "tasks"}

\* Record IDs a fix can carry as rowId: a record's real ID, and two IDs of
\* the synthesized form.
RowIds == {<<"T","9">>, SynthId("tasks", 4), SynthId("tasks", 5)}

\* Back-references a fix can carry: none, or the ID of the error on row 4 of
\* tasks (which is a submitted error's ID only while tasks is selected).
BackRefs == {NoStr, SynthId("tasks", 4)}

\* interface AIFix: every combination with a suggested value, and one fix
\* whose suggested value is null.
AIFix(fields) ==
    [rowId : RowIds, field : fields, suggestedValue : {"fix"},
     originalValidationId : BackRefs]
    \cup {[rowId |-> <<"T","9">>, field |-> "Duration", suggestedValue |-> "null",
           originalValidationId |-> NoStr]}

\* What aiService.fixErrors resolves to: an object with or without `fixes`.
FixResponses(fields) == {Some(f) : f \in SeqsUpTo(AIFix(fields), MaxFixes)} \cup {None}

\* error.id.match(/^(clients|workers|tasks)-\d+$/)
MatchesSynthPattern(id) ==
    \E e \in EntityType :
        LET p == Chars(e) \o <<"-">>
        IN /\ Len(id) > Len(p)
           /\ SubSeq(id, 1, Len(p)) = p
           /\ \A i \in (Len(p) + 1)..Len(id) : id[i] \in DigitSet

\* Array.prototype.slice(0, n)
Slice(seq, n) == IF Len(seq) <= n THEN seq ELSE SubSeq(seq, 1, n)

\* Map.prototype.set
MapSet(m, k, v) == [x \in (DOMAIN m) \cup {k} |-> IF x = k THEN v ELSE m[x]]

\* Map.prototype.get(k) || dflt
MapGetOr(m, k, dflt) == IF k \in DOMAIN m /\ TruthyStr(m[k]) THEN m[k] ELSE dflt

EmptyMap == <<>>

\* Matching that uses the field name only for a fix without originalValidationId.
MatchingWithoutFallback(fix, errs) ==
    IF TruthyStr(fix.originalValidationId)
    THEN FirstIndex(errs, LAMBDA e : e.id = fix.originalValidationId)
    ELSE FirstIndex(errs, LAMBDA e : e.field = fix.field)

\* fixErrorsMutation.onSuccess: the submitted error a fix is matched to (its
\* index in variables.errors, 0 when there is none).
MatchingOriginalError(fix, errs) ==
    LET byId == IF TruthyStr(fix.originalValidationId)
                THEN FirstIndex(errs, LAMBDA e : e.id = fix.originalValidationId)
                ELSE 0
    IN IF byId # 0 THEN byId
       ELSE FirstIndex(errs, LAMBDA e : e.field = fix.field)

\* fixErrorsMutation.onSuccess: newMapping after the first n fixes.
RECURSIVE NewMapping(_, _, _)
NewMapping(fixes, errs, n) ==
    IF n = 0 THEN EmptyMap
    ELSE LET m == NewMapping(fixes, errs, n - 1)
             k == MatchingOriginalError(fixes[n], errs)
         IN IF k # 0 THEN MapSet(m, errs[k].id, fixes[n].rowId) ELSE m

\* fixErrorsMutation.onSuccess: transformedFixes.
TransformedFixes(fixes, errs) ==
    [i \in 1..Len(fixes) |->
        LET k == MatchingOriginalError(fixes[i], errs)
        IN [id                   |-> fixes[i].rowId,
            field                |-> fixes[i].field,
            suggested_fix        |-> fixes[i].suggestedValue,
            originalValidationId |-> IF k # 0 THEN errs[k].id ELSE NoStr]]

\* handleApplyFix: the ID the update is sent to.
ActualId(m, error) == MapGetOr(m, error.id, error.id)

\* handleApplyFix: the guard that rejects the application.
RejectsId(actualId, error) ==
    \/ ~TruthyStr(actualId)
    \/ actualId = error.id /\ MatchesSynthPattern(error.id)

\* A fixed set that gains the update's target only.
FixedOnlyActual(prev, m, id) == prev \cup {id}

\* applyFixMutation.onSuccess: the new fixed set.
FixedAfterApply(prev, m, id) ==
    prev \cup {id} \cup {originalId \in DOMAIN m : m[originalId] = id}

\* applyFixMutation.onSuccess: the new working list.
ErrorsAfterApply(prevErrors, id) ==
    LET keep == {i \in 1..Len(prevErrors) : prevErrors[i].id # id}
        Nth[n \in 0..Len(prevErrors)] ==
            IF n = 0 THEN 0 ELSE CHOOSE i \in keep : i > Nth[n - 1] /\ \A j \in keep : j > Nth[n - 1] => i <= j
    IN [n \in 1..Cardinality(keep) |-> prevErrors[Nth[n]]]

\* applyFixMutation.onSuccess: the query keys it invalidates.
InvalidatedByApply(entity) == {<<"entities", entity>>, <<"entity-stats", entity>>}

FixParked ==
    /\ selectedEntity = "clients"
    /\ validationErrors = None
    /\ errors = <<>>
    /\ fixedItems = {}
    /\ isGeneratingFixes = FALSE
    /\ validationToFixIdMap = EmptyMap
    /\ fixPending = {}
    /\ fixLast = None
    /\ gens = 0
    /\ fixScript = None
    /\ applyMut = None
    /\ applied = None
    /\ invalidated = {}

\* The page as first rendered.
FixInit == FixParked

\* The entity select changes; the effect on [selectedEntity] resets the page,
\* and the validation query restarts under its new key.
SelectEntity ==
    \E e \in PageEntities \ {selectedEntity} :
        /\ selectedEntity' = e
        /\ validationErrors' = None
        /\ errors' = <<>>
        /\ fixedItems' = {}
        /\ isGeneratingFixes' = FALSE
        /\ validationToFixIdMap' = EmptyMap
        /\ invalidated' = {}
        /\ UNCHANGED <<fixPending, fixLast, fixScript, gens, applyMut, applied, dataVars, priVars, rbVars,
                   uiVars, errVars>>

\* The ['validation-errors', selectedEntity] query settles.
ValidationLoaded ==
    \E data \in ValidateBodies(PageRows, PageFields, MaxPageErrs) :
        /\ validationErrors = None
        /\ validationErrors' = Some(getValidationErrors(selectedEntity, data))
        /\ invalidated' = {}
        /\ UNCHANGED <<selectedEntity, errors, fixedItems, isGeneratingFixes,
                       validationToFixIdMap, fixPending, fixLast, fixScript, gens, applyMut,
                       applied, dataVars, priVars, rbVars,
                   uiVars, errVars>>

\* A click on Generate AI Fixes (enabled unless generating or there are no
\* validation errors, so the handler's two early returns are never taken).
handleGenerateFixes ==
    /\ ~isGeneratingFixes
    /\ validationErrors # None /\ Len(validationErrors[1]) > 0
    /\ gens < MaxGens
    /\ gens' = gens + 1
    /\ isGeneratingFixes' = TRUE
    /\ fixPending' = fixPending \cup
            {[entity |-> selectedEntity, errors |-> Slice(validationErrors[1], maxErrors)]}
    /\ invalidated' = {}
    /\ UNCHANGED <<selectedEntity, validationErrors, errors, fixedItems,
                   validationToFixIdMap, fixLast, fixScript, applyMut, applied, dataVars, priVars, rbVars,
                   uiVars, errVars>>

\* The answers a fix-errors request can get.
FixAnswers == IF fixScript # None THEN {fixScript[1]} ELSE FixResponses(PageFields)

\* fixErrorsMutation.onSuccess(data, variables)
FixOnSuccess ==
    \E variables \in fixPending, data \in FixAnswers :
        LET fixes == IF data # None THEN data[1] ELSE <<>>
        IN /\ validationToFixIdMap' = NewMapping(fixes, variables.errors, Len(fixes))
           /\ errors' = TransformedFixes(fixes, variables.errors)
           /\ isGeneratingFixes' = FALSE
           /\ invalidated' = {}
           /\ fixPending' = fixPending \ {variables}
           /\ fixLast' = IF fixScript # None
                         THEN Some([variables |-> variables, fixes |-> fixes])
                         ELSE None
           /\ UNCHANGED <<selectedEntity, validationErrors, fixedItems, fixScript, gens,
                          applyMut, applied, dataVars, priVars, rbVars,
                   uiVars, errVars>>

\* fixErrorsMutation.onError
FixOnError ==
    \E variables \in fixPending :
        /\ isGeneratingFixes' = FALSE
        /\ invalidated' = {}
        /\ fixPending' = fixPending \ {variables}
        /\ UNCHANGED <<selectedEntity, validationErrors, errors, fixedItems,
                       validationToFixIdMap, fixLast, fixScript, gens, applyMut, applied,
                       dataVars, priVars, rbVars,
                   uiVars, errVars>>

\* A click on the Apply button of entry i of the working list (disabled while
\* an apply is pending).
handleApplyFix ==
    \E i \in 1..Len(errors) :
        LET error == errors[i]
            actualId == ActualId(validationToFixIdMap, error)
        IN /\ applyMut = None
           /\ \/ /\ error.suggested_fix = "null"
                 /\ UNCHANGED <<applyMut, applied>>
              \/ /\ error.suggested_fix # "null"
                 /\ RejectsId(actualId, error)
                 /\ UNCHANGED <<applyMut, applied>>
              \/ /\ error.suggested_fix # "null"
                 /\ ~RejectsId(actualId, error)
                 /\ applyMut' = Some([entity |-> selectedEntity, id |-> actualId,
                                      field |-> error.field,
                                      value |-> error.suggested_fix])
                 /\ applied' = Some(error)
           /\ invalidated' = {}
           /\ UNCHANGED <<selectedEntity, validationErrors, errors, fixedItems,
                          isGeneratingFixes, validationToFixIdMap, fixPending, fixLast,
                          fixScript, gens, dataVars, priVars, rbVars,
                   uiVars, errVars>>

\* applyFixMutation.onSuccess(_, variables)
ApplyOnSuccess ==
    /\ applyMut # None
    /\ fixedItems' = FixedAfterApply(fixedItems, validationToFixIdMap, applyMut[1].id)
    /\ invalidated' = InvalidatedByApply(selectedEntity)
    /\ errors' = ErrorsAfterApply(errors, applyMut[1].id)
    /\ applyMut' = None
    /\ applied' = None
    /\ UNCHANGED <<selectedEntity, validationErrors, isGeneratingFixes,
                   validationToFixIdMap, fixPending, fixLast, fixScript, gens, dataVars, priVars, rbVars,
                   uiVars, errVars>>

\* An onError that also takes the entry off the working list.
ApplyOnErrorDroppingEntry ==
    /\ applyMut # None
    /\ invalidated' = {}
    /\ errors' = ErrorsAfterApply(errors, applyMut[1].id)
    /\ errorLog' = Report("applyFix")
    /\ applyMut' = None
    /\ applied' = None
    /\ UNCHANGED <<selectedEntity, validationErrors, fixedItems, isGeneratingFixes,
                   validationToFixIdMap, fixPending, fixLast, fixScript, gens,
                   dataVars, priVars, rbVars, uiVars>>

\* applyFixMutation.onError: logs the failure and shows a toast.
ApplyOnError ==
    /\ applyMut # None
    /\ invalidated' = {}
    /\ errorLog' = Report("applyFix")
    /\ applyMut' = None
    /\ applied' = None
    /\ UNCHANGED <<selectedEntity, validationErrors, errors, fixedItems, isGeneratingFixes,
                   validationToFixIdMap, fixPending, fixLast, fixScript, gens,
                   dataVars, priVars, rbVars, uiVars>>

FixNext ==
    \/ SelectEntity
    \/ ValidationLoaded
    \/ handleGenerateFixes
    \/ FixOnSuccess
    \/ FixOnError
    \/ handleApplyFix
    \/ ApplyOnSuccess
    \/ ApplyOnError

-----------------------------------------------------------------------------
(* app/settings/page.tsx: SettingsPage, and app/export/page.tsx: ExportPage *)

MaxSlide == 1       \* slider positions tried on either side of a default weight

One == 100          \* the weight 1.0, in hundredths

Tolerance == 1      \* the tolerance 0.01, in hundredths

PriPages == {"settings", "export"}

WeightKeys == {"priorityLevelWeight", "fairnessWeight", "costWeight"}

\* The useState initial value of `priorities` on each page.
DefaultPriorities(page) ==
    IF page = "settings"
    THEN [priorityLevelWeight |-> 50, fairnessWeight |-> 30, costWeight |-> 20]
    ELSE [priorityLevelWeight |-> 40, fairnessWeight |-> 30, costWeight |-> 30]

\* The step attribute of the range inputs of each page.
SliderStep(page) == IF page = "settings" THEN 5 ELSE 1

\* Math.abs
Abs(x) == IF x < 0 THEN 0 - x ELSE x

\* The values a range input (min 0, max 1) is moved to.
SliderValues(page, key) ==
    {v \in 0..One :
        /\ v % SliderStep(page) = 0
        /\ Abs(v - DefaultPriorities(page)[key]) <= MaxSlide * SliderStep(page)}

\* Weights the backend holds: sums 1.0, 0.95, 1.01 and 0.99.
BackendPriorities ==
    {[priorityLevelWeight |-> 40, fairnessWeight |-> 30, costWeight |-> 30],
     [priorityLevelWeight |-> 40, fairnessWeight |-> 30, costWeight |-> 25],
     [priorityLevelWeight |-> 50, fairnessWeight |-> 30, costWeight |-> 21],
     [priorityLevelWeight |-> 33, fairnessWeight |-> 33, costWeight |-> 33]}

\* Bodies of a /rules/priorities response: the weights in the success
\* envelope, or the weights themselves.
PriorityBodies ==
    {[success |-> "true", data |-> w] : w \in BackendPriorities} \cup BackendPriorities

\* rulesService.getPriorities / updatePriorities:
\* response.data.success ? response.data.data : response.data
unwrapPriorities(body) ==
    IF "success" \in DOMAIN body /\ body.success = "true" THEN body.data ELSE body

\* ExportPage: Object.values(priorities).reduce(sum of the numeric values)
RECURSIVE SumValues(_, _)
SumValues(p, keys) ==
    IF keys = {} THEN 0
    ELSE LET k == CHOOSE k \in keys : TRUE
         IN p[k] + SumValues(p, keys \ {k})

totalWeight(p) == SumValues(p, DOMAIN p)

\* A validity test that lets a sum of 0.95 pass.
isValidWithinFive(p) == Abs(totalWeight(p) - One) <= 5 * Tolerance

\* ExportPage: isValidWeights
isValidWeights(p) == Abs(totalWeight(p) - One) <= Tolerance

\* SettingsPage: the `disabled` attribute of the Save Priorities button.
saveDisabled(isUpdating, p) ==
    \/ isUpdating
    \/ Abs((p.priorityLevelWeight + p.fairnessWeight + p.costWeight) - One) > Tolerance

\* `updating` on the settings page, updatePrioritiesMutation.isPending on the
\* export page: true from the click until the request settles.
updating == updateRequest # None

PriParked ==
    /\ priPage = "none"
    /\ priorities = DefaultPriorities("export")
    /\ currentPriorities = None
    /\ priLoading = FALSE
    /\ updateRequest = None

\* One of the two pages is opened: its effect on mount (settings) or its query
\* (export) starts loading the weights.
PriInit ==
    /\ priPage \in PriPages
    /\ priorities = DefaultPriorities(priPage)
    /\ currentPriorities = None
    /\ priLoading = TRUE
    /\ updateRequest = None

\* Settings: loadSystemStatus runs to its end; getPriorities has answered with
\* a body, or has failed (or was skipped because the connection test failed).
loadSystemStatus ==
    /\ priPage = "settings" /\ priLoading
    /\ priLoading' = FALSE
    /\ \/ \E body \in PriorityBodies : priorities' = unwrapPriorities(body)
       \/ UNCHANGED priorities
    /\ UNCHANGED <<priPage, currentPriorities, updateRequest, dataVars, fixVars, rbVars,
                   uiVars, errVars>>

\* Settings: a click on Refresh Status (disabled while loading).
refreshStatus ==
    /\ priPage = "settings" /\ ~priLoading
    /\ priLoading' = TRUE
    /\ UNCHANGED <<priPage, priorities, currentPriorities, updateRequest,
                   dataVars, fixVars, rbVars,
                   uiVars, errVars>>

\* Export: the ['rule-priorities'] query settles. New data runs the effect on
\* [currentPriorities]; data equal to the cached data keeps its identity, and
\* a failure keeps the cached data.
PrioritiesQuerySettles ==
    /\ priPage = "export" /\ priLoading
    /\ priLoading' = FALSE
    /\ \/ \E body \in PriorityBodies :
            LET data == unwrapPriorities(body)
            IN /\ currentPriorities' = Some(data)
               /\ priorities' = IF currentPriorities = Some(data) THEN priorities ELSE data
       \/ UNCHANGED <<priorities, currentPriorities>>
    /\ UNCHANGED <<priPage, updateRequest, dataVars, fixVars, rbVars,
                   uiVars, errVars>>

\* Export: the query refetches (window focus, reconnect).
PrioritiesRefetch ==
    /\ priPage = "export" /\ ~priLoading
    /\ priLoading' = TRUE
    /\ UNCHANGED <<priPage, priorities, currentPriorities, updateRequest,
                   dataVars, fixVars, rbVars,
                   uiVars, errVars>>

\* handlePriorityChange(key, value) of either page: a slider is moved. The
\* settings page shows its form only when not loading.
handlePriorityChange ==
    \E key \in WeightKeys :
        \E value \in SliderValues(priPage, key) :
            /\ priPage \in PriPages
            /\ priPage = "settings" => ~priLoading
            /\ priorities' = [priorities EXCEPT ![key] = value]
            /\ UNCHANGED <<priPage, currentPriorities, priLoading, updateRequest,
                           dataVars, fixVars, rbVars,
                   uiVars, errVars>>

\* Settings: a click on Save Priorities.
savePriorities ==
    /\ priPage = "settings" /\ ~priLoading
    /\ ~saveDisabled(updating, priorities)
    /\ updateRequest' = Some(priorities)
    /\ UNCHANGED <<priPage, priorities, currentPriorities, priLoading,
                   dataVars, fixVars, rbVars,
                   uiVars, errVars>>

\* Settings: the request of savePriorities settles; on success the page takes
\* the weights of the response.
savePrioritiesSettles ==
    /\ priPage = "settings" /\ updating
    /\ updateRequest' = None
    /\ \/ \E body \in PriorityBodies :
            /\ priorities' = unwrapPriorities(body)
            /\ UNCHANGED errorLog
       \/ /\ UNCHANGED priorities
          /\ errorLog' = Report("savePriorities")
    /\ UNCHANGED <<priPage, currentPriorities, priLoading, dataVars, fixVars, rbVars,
                   uiVars>>

\* Export: a click on Update Priorities.
handleUpdatePriorities ==
    /\ priPage = "export"
    /\ ~(updating \/ ~isValidWeights(priorities))
    /\ updateRequest' = Some(priorities)
    /\ UNCHANGED <<priPage, priorities, currentPriorities, priLoading,
                   dataVars, fixVars, rbVars,
                   uiVars, errVars>>

\* Export: updatePrioritiesMutation settles (onSuccess and onError only toast).
updatePrioritiesSettles ==
    /\ priPage = "export" /\ updating
    /\ updateRequest' = None
    /\ UNCHANGED <<priPage, priorities, currentPriorities, priLoading,
                   dataVars, fixVars, rbVars,
                   uiVars, errVars>>

PriNext ==
    \/ loadSystemStatus
    \/ refreshStatus
    \/ PrioritiesQuerySettles
    \/ PrioritiesRefetch
    \/ handlePriorityChange
    \/ savePriorities
    \/ savePrioritiesSettles
    \/ handleUpdatePriorities
    \/ updatePrioritiesSettles

-----------------------------------------------------------------------------
(* components/RuleBuilder.tsx, rule-builders/CoRunRuleBuilder.tsx,          *)
(* rule-builders/LoadLimitRuleBuilder.tsx, rule-builders/PhaseWindowRuleBuilder.tsx *)

MaxRuns == 3        \* runs of the recompute effect followed after one form change

BuilderTypes == {"coRun", "loadLimit", "phaseWindow"}

\* IDs of the tasks, groups of the workers, and phases the forms offer.
TaskIds == {"T1", "T2"}

WorkerGroups == {"welding"}

Phases == {1, 2}

SlotValues == {1, 5}

GroupingMethods == {"skill", "custom"}

\* Identities of arrays: an array made by a render or a state update is a new
\* object, different from the arrays still referenced.
Refs == 0..3

ItemsRef == 0

FreshRef(used) == CHOOSE r \in Refs \ ({ItemsRef} \cup used) : TRUE

\* The query the mounted builder reads its list from.
ListQuery(type) == IF type = "loadLimit" THEN workersQuery ELSE tasksQuery

\* (response?.items || []): the cached array once the query has data, a new
\* empty array on every render before that.
ListArray(status, lastRef) ==
    IF status = "success" THEN ItemsRef ELSE FreshRef({lastRef})

\* The useState initial values of a builder mounted with value = {}.
InitialForm(type) ==
    CASE type = "coRun" ->
            [selectedTasks |-> [ref |-> FreshRef({}), val |-> <<>>]]
      [] type = "loadLimit" ->
            [selectedGroup |-> "", maxSlots |-> 5, groupingMethod |-> "skill"]
      [] type = "phaseWindow" ->
            [selectedTask |-> "", allowedPhases |-> [ref |-> FreshRef({}), val |-> {}]]

\* The dependency array of the builder's recompute effect.
EffectDeps(type, f, list) ==
    CASE type = "coRun" -> <<f.selectedTasks>>
      [] type = "loadLimit" -> <<f.selectedGroup, f.maxSlots, f.groupingMethod>>
      [] type = "phaseWindow" -> <<f.selectedTask, f.allowedPhases, list>>

\* The object the effect hands to onChange; of condition and action only
\* whether they are empty matters to the parent.
EffectValue(type, f) ==
    CASE type = "coRun" ->
            [state |-> <<f.selectedTasks.val>>,
             condition |-> Len(f.selectedTasks.val) > 0,
             action |-> Len(f.selectedTasks.val) > 0]
      [] type = "loadLimit" ->
            [state |-> <<f.selectedGroup, f.maxSlots, f.groupingMethod>>,
             condition |-> f.selectedGroup # "",
             action |-> f.selectedGroup # ""]
      [] type = "phaseWindow" ->
            [state |-> <<f.selectedTask, f.allowedPhases.val>>,
             condition |-> f.selectedTask # "",
             action |-> f.selectedTask # "" /\ f.allowedPhases.val # {}]

\* A query observed by a builder that mounts: it starts fetching unless it
\* has data.
Observed(status) == IF status = "success" THEN "success" ELSE "loading"

RBParked ==
    /\ ruleType = ""
    /\ typeSpecificData = None
    /\ form = None
    /\ tasksQuery = "idle"
    /\ workersQuery = "idle"
    /\ listRef = ItemsRef
    /\ seenDeps = None
    /\ scheduled = "none"
    /\ effectRuns = 0

\* RuleBuilder as first rendered for a new rule.
RBInit == RBParked

\* RuleBuilder: a rule type radio is chosen; the builder of the type mounts
\* with value = {} and a render is due.
SelectRuleType ==
    \E type \in BuilderTypes \ {ruleType} :
        /\ ruleType' = type
        /\ typeSpecificData' = None
        /\ form' = Some(InitialForm(type))
        /\ tasksQuery' = IF type = "loadLimit" THEN tasksQuery ELSE Observed(tasksQuery)
        /\ workersQuery' = IF type = "loadLimit" THEN Observed(workersQuery) ELSE workersQuery
        /\ seenDeps' = None
        /\ scheduled' = "mount"
        /\ effectRuns' = 0
        /\ UNCHANGED <<listRef, dataVars, fixVars, priVars,
                   uiVars, errVars>>

\* The list query of the mounted builder settles, with data or with an error.
ListQuerySettles ==
    \E status \in {"success", "error"} :
        /\ ruleType \in BuilderTypes
        /\ ListQuery(ruleType) = "loading"
        /\ tasksQuery' = IF ruleType = "loadLimit" THEN tasksQuery ELSE status
        /\ workersQuery' = IF ruleType = "loadLimit" THEN status ELSE workersQuery
        /\ scheduled' = "query"
        /\ UNCHANGED <<ruleType, typeSpecificData, form, listRef, seenDeps, effectRuns,
                       dataVars, fixVars, priVars,
                   uiVars, errVars>>

\* The builder shows its form (not the loading skeleton).
FormShown(type) == form # None /\ ruleType = type /\ ListQuery(type) # "loading"

\* A state update of the builder by the user: the form changes, a render is due.
FormChanged(f) ==
    /\ form' = Some(f)
    /\ scheduled' = "form"
    /\ effectRuns' = 0
    /\ UNCHANGED <<ruleType, typeSpecificData, tasksQuery, workersQuery, listRef,
                   seenDeps, dataVars, fixVars, priVars,
                   uiVars, errVars>>

\* CoRunRuleBuilder: handleTaskToggle(taskId), on a task of the loaded list.
handleTaskToggle ==
    \E taskId \in TaskIds :
        /\ FormShown("coRun") /\ tasksQuery = "success"
        /\ LET prev == form[1].selectedTasks
               has  == \E i \in 1..Len(prev.val) : prev.val[i] = taskId
               val  == IF has THEN SelectSeq(prev.val, LAMBDA id : id # taskId)
                       ELSE Append(prev.val, taskId)
               seen == IF seenDeps = None THEN {} ELSE {seenDeps[1][1].ref}
           IN FormChanged([selectedTasks |-> [ref |-> FreshRef({prev.ref} \cup seen),
                                              val |-> val]])

\* LoadLimitRuleBuilder: a grouping-method radio is chosen.
setGroupingMethod ==
    \E method \in GroupingMethods :
        /\ FormShown("loadLimit")
        /\ FormChanged([form[1] EXCEPT !.groupingMethod = method, !.selectedGroup = ""])

\* LoadLimitRuleBuilder: a group of the select is chosen (the groups of the
\* loaded workers, or the one group 'all' of the custom method).
setSelectedGroup ==
    \E group \in WorkerGroups \cup {"all", ""} :
        /\ FormShown("loadLimit")
        /\ group \in WorkerGroups => form[1].groupingMethod = "skill" /\ workersQuery = "success"
        /\ group = "all" => form[1].groupingMethod = "custom"
        /\ FormChanged([form[1] EXCEPT !.selectedGroup = group])

\* LoadLimitRuleBuilder: the slots input changes (shown once a group is chosen).
setMaxSlots ==
    \E n \in SlotValues :
        /\ FormShown("loadLimit") /\ form[1].selectedGroup # ""
        /\ FormChanged([form[1] EXCEPT !.maxSlots = n])

\* PhaseWindowRuleBuilder: a task of the select is chosen.
setSelectedTask ==
    \E taskId \in TaskIds \cup {""} :
        /\ FormShown("phaseWindow")
        /\ taskId # "" => tasksQuery = "success"
        /\ FormChanged([form[1] EXCEPT !.selectedTask = taskId])

\* PhaseWindowRuleBuilder: handlePhaseToggle(phase) (shown once a task is chosen).
handlePhaseToggle ==
    \E phase \in Phases :
        /\ FormShown("phaseWindow") /\ form[1].selectedTask # ""
        /\ LET prev == form[1].allowedPhases
               val  == IF phase \in prev.val THEN prev.val \ {phase} ELSE prev.val \cup {phase}
               seen == IF seenDeps = None THEN {} ELSE {seenDeps[1][2].ref}
           IN FormChanged([form[1] EXCEPT !.allowedPhases =
                                [ref |-> FreshRef({prev.ref} \cup seen), val |-> val]])

\* RuleBuilder and its builder render, and the builder's recompute effect runs
\* when a dependency is not the one it last ran with: onChange is
\* handleTypeSpecificChange, whose state updates ask for another render.
Render ==
    /\ ruleType \in BuilderTypes /\ scheduled # "none"
    /\ LET list == ListArray(ListQuery(ruleType), listRef)
           deps == EffectDeps(ruleType, form[1], list)
       IN /\ listRef' = list
          /\ IF seenDeps = None \/ seenDeps[1] # deps
             THEN /\ effectRuns < MaxRuns
                  /\ effectRuns' = effectRuns + 1
                  /\ seenDeps' = Some(deps)
                  /\ typeSpecificData' = Some(EffectValue(ruleType, form[1]))
                  /\ scheduled' = "onChange"
             ELSE /\ scheduled' = "none"
                  /\ UNCHANGED <<effectRuns, seenDeps, typeSpecificData>>
    /\ UNCHANGED <<ruleType, form, tasksQuery, workersQuery, dataVars, fixVars, priVars,
                   uiVars, errVars>>

RBNext ==
    \/ SelectRuleType
    \/ ListQuerySettles
    \/ handleTaskToggle
    \/ setGroupingMethod
    \/ setSelectedGroup
    \/ setMaxSlots
    \/ setSelectedTask
    \/ handlePhaseToggle
    \/ Render

-----------------------------------------------------------------------------
(* services/api.ts: the response-error interceptor and handleApiResponse;
   the unwrapping service operations; uploadService.getUploadedFiles *)

MaxStatus == 2      \* entities in the body of an upload-status response

\* The three axios instances; all three install the same interceptors.
Clients == {"api", "apiWithLongTimeout", "apiWithShortTimeout"}

\* A URL as the sequence of its path separators and segments. These are the
\* URLs the service modules pass to the clients (error.config.url holds the
\* URL as passed, the base URL is kept apart in error.config.baseURL).
ServiceUrls ==
    {<<"/", "upload", "/", "status">>, <<"/", "upload">>, <<"/", "rules">>,
     <<"/", "rules", "/", "priorities">>, <<"/", "health">>,
     <<"/", "data", "/", "validation-summary">>}
    \cup {<<"/", "data", "/", e, "?", "page=1&limit=50">> : e \in EntityType}
    \cup {<<"/", "ai", "/", op>> : op \in {"query", "fix-errors", "rule-recommendations"}}

\* String.prototype.includes on URLs.
Includes(url, path) ==
    \E i \in 0..(Len(url) - Len(path)) : SubSeq(url, i + 1, i + Len(path)) = path

\* The paths of skipToast.
skipPaths ==
    {<<"/", "api", "/", "upload", "/", "status">>,
     <<"/", "api", "/", "data", "/">>,
     <<"/", "ai", "/">>}

\* error.config?.url?.includes(path) for some path of the list; an error
\* without a config URL (url = None) matches none.
skipToast(error) == \E path \in skipPaths : Includes(error.url, path)

\* The text of the notification: the first truthy one of the body's message,
\* the body's error, the error's own message, and the fixed text. An error
\* without a response has no body (both body texts are '').
ErrorText(error) ==
    IF error.dataMessage # "" THEN error.dataMessage
    ELSE IF error.dataError # "" THEN error.dataError
    ELSE IF error.message # "" THEN error.message
    ELSE "An error occurred"

\* An interceptor that swallows the errors whose notification is skipped.
InterceptorResolvingSkipped(error) ==
    [toasts  |-> IF skipToast(error) THEN <<>> ELSE <<ErrorText(error)>>,
     settled |-> IF skipToast(error) THEN "resolved" ELSE "rejected",
     with    |-> error]

\* responseErrorInterceptor: the notifications it shows, and the promise it
\* returns.
responseErrorInterceptor(error) ==
    [toasts  |-> IF skipToast(error) THEN <<>> ELSE <<ErrorText(error)>>,
     settled |-> "rejected",
     with    |-> error]

\* Errors a request can fail with: an HTTP status (0: no response arrived)
\* and the texts.
FailedRequests ==
    {e \in [client : Clients, url : ServiceUrls \cup {None}, status : {0, 400, 500},
            dataMessage : {"", "Bad request"}, dataError : {"", "E_FAIL"},
            message : {"", "Network Error"}] :
        e.status = 0 => (e.dataMessage = "" /\ e.dataError = "")}

\* The body of a response (response.data): an object with or without a
\* success field and a data field, or something that is no object.
Payloads ==
    [kind : {"object"}, success : {"true", "false", "undefined"},
     data : {None, Some("rows")}]
    \cup [kind : {"text"}, success : {"undefined"}, data : {None}]

\* An unwrapping yields the payload's data field (None when it is undefined)
\* or the payload as it is.
Raw(payload) == <<payload.kind, payload.success>> \o payload.data

\* handleApiResponse(response), response.data being the payload.
handleApiResponse(payload) ==
    IF payload.kind = "object"
    THEN IF payload.success # "undefined"
         THEN IF payload.success = "true" THEN payload.data ELSE Raw(payload)
         ELSE IF payload.data # None THEN payload.data ELSE Raw(payload)
    ELSE Raw(payload)

\* `response.data.success ? response.data.data : response.data`, the return
\* statement of the rules and AI operations and of getEntityStats.
inlineUnwrap(payload) ==
    IF payload.success = "true" THEN payload.data ELSE Raw(payload)

\* The unwrapping operations, and the unwrapping each one is written with.
InlineOps == {"rulesService.getRules", "rulesService.getPriorities",
              "aiService.query", "dataService.getEntityStats"}

HandledOps == {"dataService.getEntity", "dataService.updateEntity"}

unwrap(op, payload) ==
    IF op \in HandledOps THEN handleApiResponse(payload) ELSE inlineUnwrap(payload)

\* The status of one entity in the upload-status response.
EntityStatuses ==
    [entity : EntityType, hasData : BOOLEAN,
     fileName : {<<"a.csv">>, <<"b.csv">>, NoStr}, lastUpdated : {NoStr, <<"t1">>}]

\* The bodies of the upload-status response. Object.entries walks the
\* entities in order; an object has each key once.
StatusBodies ==
    [success : {"true"},
     data : {Some([entities |-> s]) :
                s \in {Some(es) : es \in
                         {x \in SeqsUpTo(EntityStatuses, MaxStatus) :
                             \A i, j \in 1..Len(x) : x[i].entity = x[j].entity => i = j}}
                      \cup {None}}
            \cup {None}]
    \cup [success : {"false", "undefined"}, data : {None}]

\* The entries with data, named or not.
RECURSIVE WithData(_)
WithData(es) ==
    IF es = <<>> THEN <<>>
    ELSE (IF Head(es).hasData THEN <<Head(es)>> ELSE <<>>) \o WithData(Tail(es))

\* The entries that pass `info.hasData && info.fileName`.
RECURSIVE WithDataAndName(_)
WithDataAndName(es) ==
    IF es = <<>> THEN <<>>
    ELSE (IF Head(es).hasData /\ TruthyStr(Head(es).fileName) THEN <<Head(es)>> ELSE <<>>)
         \o WithDataAndName(Tail(es))

FileRecord(info) ==
    [filename     |-> info.fileName,
     originalName |-> info.fileName,
     size         |-> 0,
     uploadedAt   |-> IF TruthyStr(info.lastUpdated) THEN info.lastUpdated ELSE <<"now">>,
     status       |-> "completed"]

\* uploadService.getUploadedFiles, after the request has been answered with
\* `data`. A successful body without data makes `statusData.entities` throw.
getUploadedFiles(data) ==
    IF data.success = "true"
    THEN IF data.data = None
         THEN [threw |-> TRUE, files |-> <<>>]
         ELSE LET entities == IF data.data[1].entities # None
                              THEN data.data[1].entities[1] ELSE <<>>
                  kept == WithDataAndName(entities)
              IN [threw |-> FALSE,
                  files |-> [i \in 1..Len(kept) |-> FileRecord(kept[i])]]
    ELSE [threw |-> FALSE, files |-> <<>>]

\* A request that failed on one of the clients; a call of an unwrapping
\* operation answered with a payload; a call of getUploadedFiles answered
\* with a body.
SvcInit ==
    call \in [op : {"intercept"}, error : FailedRequests, out : {None}]
             \cup [op : InlineOps \cup HandledOps, payload : Payloads, out : {None}]
             \cup [op : {"getUploadedFiles"}, data : StatusBodies, out : {None}]

-----------------------------------------------------------------------------
(* components/RuleRecommendations.tsx: the ['rule-recommendations'] query *)

MaxRecs == 2        \* recommendations in a response

RetryLimit == 3

Recs == {"rec1", "rec2", "rec3"}

\* recommendation.type: two recommendations of one type and one of another.
RecType(r) == IF r = "rec3" THEN "loadLimit" ELSE "coRun"

\* Answers of GET /ai/rule-recommendations: a body (status 200) with the list
\* under data.recommendations, under recommendations, or nowhere; or a failure
\* with an HTTP status (0: no response arrived).
RecAnswers ==
    [status : {200}, success : {"true", "false"},
     nested : {Some(l) : l \in SeqsUpTo(Recs, MaxRecs)} \cup {None},
     top : {Some(l) : l \in SeqsUpTo(Recs, MaxRecs)} \cup {None}]
    \cup [status : {0, 400, 500}, success : {"undefined"}, nested : {None}, top : {None}]

\* aiService.getRuleRecommendations: the list it returns, or the error it
\* rethrows (an array is truthy also when empty).
getRuleRecommendations(answer) ==
    IF answer.status = 200
    THEN [threw |-> FALSE, status |-> answer.status,
          value |-> IF answer.success = "true"
                    THEN IF answer.nested # None THEN answer.nested[1]
                         ELSE IF answer.top # None THEN answer.top[1]
                         ELSE <<>>
                    ELSE <<>>]
    ELSE [threw |-> TRUE, status |-> answer.status, value |-> <<>>]

\* A query function that rethrows every error.
QueryFnRethrowing(answer) == getRuleRecommendations(answer)

\* queryFn: a 400 becomes an empty list, every other error is rethrown.
queryFn(answer) ==
    LET result == getRuleRecommendations(answer)
    IN IF result.threw /\ result.status = 400
       THEN [threw |-> FALSE, status |-> result.status, value |-> <<>>]
       ELSE result

\* retry: (failureCount, error) => ...
retry(failureCount, status) ==
    IF status = 400 THEN FALSE ELSE failureCount < RetryLimit

\* The component is not mounted.
RecParked ==
    /\ recQuery = [status |-> "pending", data |-> None, error |-> None,
                   fetching |-> FALSE, failureCount |-> 0]
    /\ recHandled = NoNum
    /\ ignoredRecommendations = {}
    /\ ignoredByUser = {}

\* The component mounts and the query starts its first fetch.
RecInit ==
    /\ recQuery = [status |-> "pending", data |-> None, error |-> None,
                   fetching |-> TRUE, failureCount |-> 0]
    /\ recHandled = NoNum
    /\ ignoredRecommendations = {}
    /\ ignoredByUser = {}

\* The request of the current fetch is answered: the query takes the list,
\* retries, or settles in the error state.
RecAnswered ==
    \E answer \in RecAnswers :
        LET result == queryFn(answer)
        IN /\ recQuery.fetching
           /\ recHandled' = answer.status
           /\ UNCHANGED <<ignoredRecommendations, ignoredByUser>>
           /\ recQuery' =
                IF ~result.threw
                THEN [status |-> "success", data |-> Some(result.value), error |-> None,
                      fetching |-> FALSE, failureCount |-> 0]
                ELSE IF retry(recQuery.failureCount, result.status)
                THEN [recQuery EXCEPT !.failureCount = @ + 1]
                ELSE [recQuery EXCEPT !.status = "error", !.error = Some(result.status),
                                      !.fetching = FALSE, !.failureCount = @ + 1]
           /\ UNCHANGED <<dataVars, fixVars, priVars, rbVars, storeVars, epVars, upVars,
                          errVars>>

\* handleRequestMoreHints, or the refetch interval: refetch(). Without data
\* the query goes back to pending; with data it keeps its status.
refetch ==
    /\ ~recQuery.fetching
    /\ recQuery' = [recQuery EXCEPT !.fetching = TRUE, !.failureCount = 0,
                                    !.status = IF recQuery.data = None THEN "pending" ELSE @,
                                    !.error = IF recQuery.data = None THEN None ELSE @]
    /\ recHandled' = NoNum
    /\ UNCHANGED <<ignoredRecommendations, ignoredByUser>>
    /\ UNCHANGED <<dataVars, fixVars, priVars, rbVars, storeVars, epVars, upVars, errVars>>

\* The key of the recommendation at a position of the list (the list is
\* indexed from 0 in the component).
recommendationId(recommendations, i) == <<RecType(recommendations[i]), i - 1>>

\* visibleRecommendations, as the positions of the list that are rendered.
visibleRecommendations ==
    IF recQuery.data = None THEN {}
    ELSE {i \in 1..Len(recQuery.data[1]) :
            recommendationId(recQuery.data[1], i) \notin ignoredRecommendations}

\* handleIgnoreRule(recommendation, originalIndex): a click on Ignore of a
\* rendered recommendation; the list is rendered when the query is neither
\* loading nor in its error state.
handleIgnoreRule ==
    \E i \in visibleRecommendations :
        /\ recQuery.status = "success"
        /\ ignoredRecommendations' =
                ignoredRecommendations \cup {recommendationId(recQuery.data[1], i)}
        /\ ignoredByUser' = ignoredByUser \cup {recQuery.data[1][i]}
        /\ UNCHANGED <<recQuery, recHandled>>
        /\ UNCHANGED <<dataVars, fixVars, priVars, rbVars, storeVars, epVars, upVars, errVars>>

RecNext ==
    \/ RecAnswered
    \/ refetch
    \/ handleIgnoreRule

-----------------------------------------------------------------------------
(* store/useDataStore.ts: filters and pagination;
   app/data/[entity]/page.tsx: EntityPage *)

MaxPage == 3        \* pages of a list; page numbers range over 1..MaxPage

\* Partial<EntityFilters> over the keys search and status.
FilterArgs == UNION {[K -> {"", "acme", "pending"}] : K \in SUBSET {"search", "status"}}

\* Partial<DataStore['pagination']>: the arguments setPagination is called with.
PaginationArgs ==
    {[page |-> p] : p \in 1..MaxPage}
    \cup {[limit |-> l] : l \in {10, 50}}
    \cup {[total |-> 7, totalPages |-> p] : p \in 1..MaxPage}

\* The object spread {...a, ...b}.
Merge(a, b) ==
    [k \in (DOMAIN a) \cup (DOMAIN b) |-> IF k \in DOMAIN b THEN b[k] ELSE a[k]]

\* The store as created: no filters, the first page of 50.
StoreParked ==
    /\ filters = <<>>
    /\ pagination = [page |-> 1, limit |-> 50, total |-> 0, totalPages |-> 0]
    /\ storeCall = [op |-> "create"]

\* A setFilters that resets the whole pagination, as clearFilters does.
SetFiltersResettingPagination ==
    \E f \in FilterArgs :
        /\ filters' = Merge(filters, f)
        /\ pagination' = [page |-> 1, limit |-> 50, total |-> 0, totalPages |-> 0]
        /\ storeCall' = [op |-> "setFilters", arg |-> f, filters |-> filters,
                         pagination |-> pagination]
        /\ UNCHANGED <<dataVars, fixVars, priVars, rbVars, recVars, epVars, upVars, errVars>>

\* setFilters(f)
setFilters ==
    \E f \in FilterArgs :
        /\ filters' = Merge(filters, f)
        /\ pagination' = Merge(pagination, [page |-> 1])
        /\ storeCall' = [op |-> "setFilters", arg |-> f, filters |-> filters,
                         pagination |-> pagination]
        /\ UNCHANGED <<dataVars, fixVars, priVars, rbVars, recVars, epVars, upVars, errVars>>

\* setPagination(p)
setPagination ==
    \E p \in PaginationArgs :
        /\ pagination' = Merge(pagination, p)
        /\ storeCall' = [op |-> "setPagination", arg |-> p, filters |-> filters,
                         pagination |-> pagination]
        /\ UNCHANGED <<filters, dataVars, fixVars, priVars, rbVars, recVars, epVars, upVars,
                       errVars>>

\* clearFilters()
clearFilters ==
    /\ filters' = <<>>
    /\ pagination' = [page |-> 1, limit |-> 50, total |-> 0, totalPages |-> 0]
    /\ storeCall' = [op |-> "clearFilters", arg |-> <<>>, filters |-> filters,
                     pagination |-> pagination]
    /\ UNCHANGED <<dataVars, fixVars, priVars, rbVars, recVars, epVars, upVars, errVars>>

StoreNext ==
    \/ setFilters
    \/ setPagination
    \/ clearFilters

\* The values of the search box and of the status select.
SearchValues == {"", "acme"}

StatusValues == {"", "pending", "completed"}

\* queryKey: ['entities', entity, page, limit, searchQuery, statusFilter]
QueryKey(page, limit, search, status) ==
    [entity |-> routeEntity, page |-> page, limit |-> limit, search |-> search,
     status |-> status]

\* No record is shown and no update or delete was requested.
MutParked ==
    /\ serverRows = {}
    /\ cachedRows = {}
    /\ listFetch = None
    /\ mutations = {}
    /\ arrived = <<>>

\* No entity page is mounted.
EpParked ==
    /\ routeEntity = "none"
    /\ searchQuery = ""
    /\ statusFilter = ""
    /\ entityData = None
    /\ issued = None
    /\ MutParked

\* The page of an entity mounts, with the filters of the URL's search
\* parameters, and its query issues the first list request.
EpInit ==
    /\ routeEntity \in EntityType
    /\ searchQuery \in SearchValues
    /\ statusFilter \in StatusValues
    /\ entityData = None
    /\ issued = Some([key |-> QueryKey(pagination.page, pagination.limit,
                                       searchQuery, statusFilter),
                      cause |-> "mount"])
    /\ MutParked

\* The list request of the current key is answered.
EntitiesLoaded ==
    \E totalPages \in 0..MaxPage :
        /\ routeEntity # "none" /\ entityData = None
        /\ entityData' = Some([totalPages |-> totalPages])
        /\ UNCHANGED <<routeEntity, searchQuery, statusFilter, issued, storeVars, mutVars,
                       dataVars, fixVars, priVars, rbVars, recVars, upVars, errVars>>

\* The search box changes: onChange={(e) => setSearchQuery(e.target.value)}.
\* The key changes, so the query issues a request for the new key.
setSearchQuery ==
    \E value \in SearchValues \ {searchQuery} :
        /\ routeEntity # "none"
        /\ searchQuery' = value
        /\ entityData' = None
        /\ issued' = Some([key |-> QueryKey(pagination.page, pagination.limit,
                                            value, statusFilter),
                           cause |-> "filter"])
        /\ UNCHANGED <<routeEntity, statusFilter, storeVars, mutVars,
                       dataVars, fixVars, priVars, rbVars, recVars, upVars, errVars>>

\* The status select (shown for tasks) changes.
setStatusFilter ==
    \E value \in StatusValues \ {statusFilter} :
        /\ routeEntity = "tasks"
        /\ statusFilter' = value
        /\ entityData' = None
        /\ issued' = Some([key |-> QueryKey(pagination.page, pagination.limit,
                                            searchQuery, value),
                           cause |-> "filter"])
        /\ UNCHANGED <<routeEntity, searchQuery, storeVars, mutVars,
                       dataVars, fixVars, priVars, rbVars, recVars, upVars, errVars>>

\* A click on a control that calls setPagination({page}); a page that differs
\* from the current one changes the key.
GoToPage(page) ==
    /\ pagination' = Merge(pagination, [page |-> page])
    /\ storeCall' = [op |-> "setPagination", arg |-> [page |-> page],
                     filters |-> filters, pagination |-> pagination]
    /\ IF page # pagination.page
       THEN /\ entityData' = None
            /\ issued' = Some([key |-> QueryKey(page, pagination.limit,
                                                searchQuery, statusFilter),
                               cause |-> "page"])
       ELSE UNCHANGED <<entityData, issued>>
    /\ UNCHANGED <<routeEntity, searchQuery, statusFilter, filters, mutVars,
                   dataVars, fixVars, priVars, rbVars, recVars, upVars, errVars>>

\* The search form is submitted.
handleSearch ==
    /\ routeEntity # "none"
    /\ GoToPage(1)

\* A click on Previous (shown with more than one page, disabled on page 1).
PreviousPage ==
    /\ routeEntity # "none"
    /\ entityData # None /\ entityData[1].totalPages > 1
    /\ pagination.page # 1
    /\ GoToPage(pagination.page - 1)

\* A click on Next (shown with more than one page, disabled on the last).
NextPage ==
    /\ routeEntity # "none"
    /\ entityData # None /\ entityData[1].totalPages > 1
    /\ pagination.page # entityData[1].totalPages
    /\ pagination.page < MaxPage
    /\ GoToPage(pagination.page + 1)

EpNext ==
    \/ EntitiesLoaded
    \/ setSearchQuery
    \/ setStatusFilter
    \/ handleSearch
    \/ PreviousPage
    \/ NextPage

\* ---- EntityPage: updateMutation and deleteMutation against the cached list

MaxMut == 2         \* update and delete requests of one visit

ListedIds == {"a", "b"}

\* The page shows a loaded list; the backend holds the records of the list.
RaceInit ==
    /\ routeEntity \in EntityType
    /\ searchQuery = ""
    /\ statusFilter = ""
    /\ entityData = Some([totalPages |-> 1])
    /\ issued = None
    /\ serverRows = ListedIds
    /\ cachedRows = ListedIds
    /\ listFetch = None
    /\ mutations = {}
    /\ arrived = <<>>

RaceFrame ==
    UNCHANGED <<routeEntity, searchQuery, statusFilter, entityData, issued, storeVars,
                dataVars, fixVars, priVars, rbVars, recVars, upVars, errVars>>

\* queryClient.invalidateQueries({ queryKey: ['entities', entity] }): the
\* active query drops the fetch it has in flight and fetches again; the
\* cached list stays until the answer arrives.
invalidateQueries == listFetch' = Some([answer |-> None])

\* handleEdit(id, field, value): updateMutation.mutate for a row of the list.
handleEdit ==
    \E id \in cachedRows :
        /\ Cardinality(mutations) + Len(arrived) < MaxMut
        /\ [kind |-> "update", id |-> id, status |-> "sent"] \notin mutations
        /\ mutations' = mutations \cup {[kind |-> "update", id |-> id, status |-> "sent"]}
        /\ UNCHANGED <<serverRows, cachedRows, listFetch, arrived>>
        /\ RaceFrame

\* handleDelete(id) of the page, confirmed: deleteMutation.mutate for a row
\* of the list.
handleDeleteRow ==
    \E id \in cachedRows :
        /\ Cardinality(mutations) + Len(arrived) < MaxMut
        /\ [kind |-> "delete", id |-> id, status |-> "sent"] \notin mutations
        /\ mutations' = mutations \cup {[kind |-> "delete", id |-> id, status |-> "sent"]}
        /\ UNCHANGED <<serverRows, cachedRows, listFetch, arrived>>
        /\ RaceFrame

\* The backend handles PATCH or DELETE /data/{entity}/{id}: in any order,
\* whatever the order they were sent in; a request for a record it does not
\* hold fails.
BackendHandles ==
    \E m \in mutations :
        /\ m.status = "sent"
        /\ mutations' = (mutations \ {m})
                 \cup {[m EXCEPT !.status = IF m.id \in serverRows THEN "ok" ELSE "failed"]}
        /\ serverRows' = IF m.kind = "delete" THEN serverRows \ {m.id} ELSE serverRows
        /\ UNCHANGED <<cachedRows, listFetch, arrived>>
        /\ RaceFrame

\* The backend answers the list request with the records it holds.
BackendAnswersList ==
    /\ listFetch = Some([answer |-> None])
    /\ listFetch' = Some([answer |-> Some(serverRows)])
    /\ UNCHANGED <<serverRows, cachedRows, mutations, arrived>>
    /\ RaceFrame

\* An onSuccess of updateMutation that also writes the record it got back
\* into the cached list.
UpdateOnSuccessWritingCache ==
    \E m \in mutations :
        /\ m.kind = "update" /\ m.status = "ok"
        /\ mutations' = mutations \ {m}
        /\ arrived' = Append(arrived, [kind |-> m.kind, id |-> m.id])
        /\ cachedRows' = cachedRows \cup {m.id}
        /\ invalidateQueries
        /\ UNCHANGED serverRows
        /\ RaceFrame

\* updateMutation.onSuccess: the response of an update arrives.
updateMutationOnSuccess ==
    \E m \in mutations :
        /\ m.kind = "update" /\ m.status = "ok"
        /\ mutations' = mutations \ {m}
        /\ arrived' = Append(arrived, [kind |-> m.kind, id |-> m.id])
        /\ invalidateQueries
        /\ UNCHANGED <<serverRows, cachedRows>>
        /\ RaceFrame

\* deleteMutation.onSuccess: the response of a delete arrives.
deleteMutationOnSuccess ==
    \E m \in mutations :
        /\ m.kind = "delete" /\ m.status = "ok"
        /\ mutations' = mutations \ {m}
        /\ arrived' = Append(arrived, [kind |-> m.kind, id |-> m.id])
        /\ invalidateQueries
        /\ UNCHANGED <<serverRows, cachedRows>>
        /\ RaceFrame

\* The failure of an update or a delete arrives: neither mutation has an
\* onError.
mutationFails ==
    \E m \in mutations :
        /\ m.status = "failed"
        /\ mutations' = mutations \ {m}
        /\ arrived' = Append(arrived, [kind |-> m.kind, id |-> m.id])
        /\ UNCHANGED <<serverRows, cachedRows, listFetch>>
        /\ RaceFrame

\* The answer of the fetch in flight arrives and replaces the cached list.
ListRefetched ==
    /\ listFetch # None /\ listFetch[1].answer # None
    /\ cachedRows' = listFetch[1].answer[1]
    /\ listFetch' = None
    /\ UNCHANGED <<serverRows, mutations, arrived>>
    /\ RaceFrame

RaceNext ==
    \/ handleEdit
    \/ handleDeleteRow
    \/ BackendHandles
    \/ BackendAnswersList
    \/ updateMutationOnSuccess
    \/ deleteMutationOnSuccess
    \/ mutationFails
    \/ ListRefetched

-----------------------------------------------------------------------------
(* app/upload/page.tsx: UploadPage, and store/useUploadStore.ts *)

MaxDrops == 2       \* files dropped on the page in one visit

UpFileNames == {"a.csv", "b.csv"}

\* The upload page is not mounted; the upload store is as created.
UpParked ==
    /\ uploadPage = FALSE
    /\ files = <<>>
    /\ selectedDataType = "clients"
    /\ inFlight = {}
    /\ drops = 0

UpInit ==
    /\ uploadPage = TRUE
    /\ files = <<>>
    /\ selectedDataType = "clients"
    /\ inFlight = {}
    /\ drops = 0

\* removeFile(filename): state.files.filter((f) => f.filename !== filename)
RECURSIVE removeFile(_, _)
removeFile(fs, filename) ==
    IF fs = <<>> THEN <<>>
    ELSE (IF Head(fs).filename # filename THEN <<Head(fs)>> ELSE <<>>)
         \o removeFile(Tail(fs), filename)

\* The data type select changes.
setSelectedDataType ==
    \E type \in EntityType \ {selectedDataType} :
        /\ uploadPage
        /\ selectedDataType' = type
        /\ UNCHANGED <<uploadPage, files, inFlight, drops, recVars, storeVars, epVars,
                       dataVars, fixVars, priVars, rbVars, errVars>>

\* onDrop: an accepted file is handed to uploadMutation.mutate.
onDrop ==
    \E name \in UpFileNames :
        /\ uploadPage /\ drops < MaxDrops
        /\ drops' = drops + 1
        /\ inFlight' = inFlight \cup {[kind |-> "upload", file |-> name,
                                       entityType |-> selectedDataType, drop |-> drops + 1]}
        /\ UNCHANGED <<uploadPage, files, selectedDataType, recVars, storeVars, epVars,
                       dataVars, fixVars, priVars, rbVars, errVars>>

\* handleDelete, confirmed: the Delete button of a listed file (disabled while
\* a delete is pending).
handleDelete ==
    \E name \in UpFileNames :
        /\ uploadPage
        /\ \A m \in inFlight : m.kind # "delete"
        /\ inFlight' = inFlight \cup {[kind |-> "delete", file |-> name,
                                       entityType |-> "none", drop |-> 0]}
        /\ UNCHANGED <<uploadPage, files, selectedDataType, drops, recVars, storeVars,
                       epVars, dataVars, fixVars, priVars, rbVars, errVars>>

\* The state of the AI-fix page other than the invalidated query keys.
fixButInvalidated ==
    <<selectedEntity, validationErrors, errors, fixedItems, isGeneratingFixes,
      validationToFixIdMap, fixPending, fixLast, gens, fixScript, applyMut, applied>>

\* uploadMutation.onSuccess(data, variables); the query client is the one
\* of the whole application.
UploadOnSuccess ==
    \E m \in inFlight :
        /\ m.kind = "upload"
        /\ files' = Append(files, [filename |-> m.file])
        /\ invalidated' = {<<"uploaded-files">>, <<"entities", m.entityType>>,
                           <<"entity-stats", m.entityType>>, <<"entity-stats">>}
        /\ inFlight' = inFlight \ {m}
        /\ UNCHANGED <<uploadPage, selectedDataType, drops, errVars, fixButInvalidated,
                       recVars, storeVars, epVars, dataVars, priVars, rbVars>>

\* uploadMutation.onError
UploadOnError ==
    \E m \in inFlight :
        /\ m.kind = "upload"
        /\ errorLog' = Report("upload")
        /\ inFlight' = inFlight \ {m}
        /\ UNCHANGED <<uploadPage, files, selectedDataType, drops, fixVars,
                       recVars, storeVars, epVars, dataVars, priVars, rbVars>>

\* deleteMutation.onSuccess(_, filename)
DeleteOnSuccess ==
    \E m \in inFlight :
        /\ m.kind = "delete"
        /\ files' = removeFile(files, m.file)
        /\ invalidated' = {<<"uploaded-files">>}
        /\ inFlight' = inFlight \ {m}
        /\ UNCHANGED <<uploadPage, selectedDataType, drops, errVars, fixButInvalidated,
                       recVars, storeVars, epVars, dataVars, priVars, rbVars>>

\* deleteMutation.onError
DeleteOnError ==
    \E m \in inFlight :
        /\ m.kind = "delete"
        /\ errorLog' = Report("delete")
        /\ inFlight' = inFlight \ {m}
        /\ UNCHANGED <<uploadPage, files, selectedDataType, drops, fixVars,
                       recVars, storeVars, epVars, dataVars, priVars, rbVars>>

UiParked == RecParked /\ StoreParked /\ EpParked /\ UpParked

-----------------------------------------------------------------------------
(* rule-builders/CoRunRuleBuilder.tsx and RuleBuilder: what is emitted and
   saved; table/EntityTable.tsx: the ID of a row; store/useDataStore.ts: the
   entity arrays *)

MaxSel == 2         \* tasks selected in the co-run builder
MaxArr == 2         \* records in an array of the store, rows in a table

\* A join that keeps the first element only.
JoinFirstOnly(ids) == IF Len(ids) = 0 THEN <<>> ELSE <<ids[1]>>

\* Array.prototype.join(', ')
RECURSIVE Join(_)
Join(ids) ==
    IF Len(ids) = 0 THEN <<>>
    ELSE IF Len(ids) = 1 THEN <<ids[1]>>
    ELSE <<ids[1], ", ">> \o Join(Tail(ids))

\* CoRunRuleBuilder: the object its effect hands to onChange; condition and
\* action are the pieces of their template literals.
coRunValue(selectedTasks) ==
    [tasks     |-> selectedTasks,
     condition |-> IF Len(selectedTasks) > 0
                   THEN <<"tasks: [">> \o Join(selectedTasks) \o <<"]">>
                   ELSE <<>>,
     action    |-> IF Len(selectedTasks) > 0
                   THEN <<"Schedule tasks ">> \o Join(selectedTasks) \o <<" to run together">>
                   ELSE <<>>]

\* CoRunRuleBuilder: the warning under the selection is rendered.
coRunWarning(selectedTasks) == Len(selectedTasks) = 1

\* String.prototype.trim on a sequence of characters.
RECURSIVE trim(_)
trim(s) ==
    IF s = <<>> THEN s
    ELSE IF Head(s) = " " THEN trim(Tail(s))
    ELSE IF s[Len(s)] = " " THEN trim(SubSeq(s, 1, Len(s) - 1))
    ELSE s

\* if (cond) newErrors[key] = '...'
ErrorIf(cond, key) == IF cond THEN {key} ELSE {}

\* A validation that asks a co-run rule for two tasks.
ValidateNeedingTwoTasks(ruleName, type, ruleDescription, priority, data) ==
    ErrorIf(trim(ruleName) = <<>>, "name")
    \cup ErrorIf(type = "", "type")
    \cup ErrorIf(trim(ruleDescription) = <<>>, "description")
    \cup ErrorIf(priority < 1 \/ priority > 10, "priority")
    \cup ErrorIf(type # "" /\ Len(data.tasks) < 2, "typeSpecific")

\* RuleBuilder.validateForm: the keys of newErrors.
validateForm(ruleName, type, ruleDescription, priority, data) ==
    ErrorIf(trim(ruleName) = <<>>, "name")
    \cup ErrorIf(type = "", "type")
    \cup ErrorIf(trim(ruleDescription) = <<>>, "description")
    \cup ErrorIf(priority < 1 \/ priority > 10, "priority")
    \cup ErrorIf(type # "" /\ data.condition = <<>>, "typeSpecific")

\* RuleBuilder.handleSave with the co-run builder mounted and its effect run:
\* the errors shown, whether onSave is called, and the builder's warning.
handleSave(ruleName, ruleDescription, priority, selectedTasks) ==
    LET newErrors == validateForm(ruleName, "coRun", ruleDescription, priority,
                                  coRunValue(selectedTasks))
    IN [errors  |-> newErrors,
        saved   |-> newErrors = {},
        warning |-> coRunWarning(selectedTasks)]

\* EntityTable.getRowId(row, index) of the table of an entity.
getRowId(e, row, index) ==
    IF TruthyStr(row.id) THEN row.id
    ELSE IF TruthyStr(row.entityId)
    THEN Chars(e) \o <<"-">> \o row.entityId \o <<"-">> \o NumToString(index)
    ELSE Chars(e) \o <<"-", "r", "o", "w", "-">> \o NumToString(index)

\* Rows of a list response: with or without an id field, with or without
\* the ID column of their type (ClientID, WorkerID, TaskID).
TableRows == [id : {NoStr, <<"6", "5", "f">>}, entityId : {NoStr, <<"T", "1">>}]

\* The records of the store's arrays.
StoreRecords == [id : {"a", "b"}, name : {"x"}]

\* The state of the data store.
StoreStates ==
    [entities : [EntityType -> SeqsUpTo(StoreRecords, MaxArr)],
     filters : {<<>>}, pagination : {[page |-> 2, limit |-> 50, total |-> 0, totalPages |-> 0]},
     selectedItems : {<<>>, <<"a">>}]

\* A removeEntity that also drops the record from the selection.
RemoveEntityAndSelection(state, e, id) ==
    [state EXCEPT !.entities[e] = SelectSeq(@, LAMBDA item : item.id # id),
                  !.selectedItems = SelectSeq(@, LAMBDA item : item # id)]

\* setEntities(entity, data)
setEntities(state, e, data) == [state EXCEPT !.entities[e] = data]

\* addEntity(entity, data)
addEntity(state, e, data) == [state EXCEPT !.entities[e] = <<data>> \o @]

\* updateEntity(entity, id, data)
updateEntity(state, e, id, data) ==
    [state EXCEPT !.entities[e] =
        [i \in 1..Len(@) |-> IF @[i].id = id THEN Merge(@[i], data) ELSE @[i]]]

\* removeEntity(entity, id)
removeEntity(state, e, id) ==
    [state EXCEPT !.entities[e] = SelectSeq(@, LAMBDA item : item.id # id)]

\* A call of one of these, with its arguments.
ViewInit ==
    call \in [op : {"coRunEffect"}, selectedTasks : SeqsUpTo(TaskIds, MaxSel), out : {None}]
             \cup [op : {"handleSave"}, ruleName : {<<>>, <<" ">>, <<"R", " ">>},
                   ruleDescription : {<<>>, <<"d">>}, priority : {0, 1, 10, 11},
                   selectedTasks : SeqsUpTo(TaskIds, MaxSel), out : {None}]
             \cup [op : {"onEdit", "onDelete"}, entity : EntityType, row : TableRows,
                   index : 0..(MaxArr - 1), out : {None}]
             \cup [op : {"setEntities"}, state : StoreStates, entity : EntityType,
                   data : SeqsUpTo(StoreRecords, 1), out : {None}]
             \cup [op : {"addEntity"}, state : StoreStates, entity : EntityType,
                   data : StoreRecords, out : {None}]
             \cup [op : {"updateEntity"}, state : StoreStates, entity : EntityType,
                   id : {"a", "b", "c"}, data : {[name |-> "y"]}, out : {None}]
             \cup [op : {"removeEntity"}, state : StoreStates, entity : EntityType,
                   id : {"a", "b", "c"}, out : {None}]

-----------------------------------------------------------------------------
(* Specifications *)

\* getEntities returns.
ReturnEntities ==
    /\ call.op = "getEntities" /\ call.out = None
    /\ call' = [call EXCEPT !.out = Some(getEntities(call.page, call.limit, call.data))]
    /\ UNCHANGED <<fixVars, priVars, rbVars,
                   uiVars, errVars>>

\* getValidationErrors returns.
ReturnValidationErrors ==
    /\ call.op = "getValidationErrors" /\ call.out = None
    /\ call' = [call EXCEPT !.out = Some(getValidationErrors(call.entity, call.data))]
    /\ UNCHANGED <<fixVars, priVars, rbVars,
                   uiVars, errVars>>

DataNext ==
    \/ ReturnEntities
    \/ ReturnValidationErrors

InitData == DataInit /\ FixParked /\ PriParked /\ RBParked /\ UiParked /\ ErrParked

SpecData == InitData /\ [][DataNext]_vars

InitFix == FixInit /\ DataParked /\ PriParked /\ RBParked /\ UiParked /\ ErrParked

SpecFix == InitFix /\ [][FixNext]_vars

\* One generation and one click on Apply: tasks is selected, its validation
\* errors have loaded, Generate AI Fixes has been clicked, and the backend has
\* its answer ready.
MatchRows == {4}

FixGenerating ==
    /\ selectedEntity = "tasks"
    /\ \E data \in ValidateBodies(MatchRows, Fields, MaxErrs) :
        /\ getValidationErrors("tasks", data) # <<>>
        /\ validationErrors = Some(getValidationErrors("tasks", data))
    /\ errors = <<>>
    /\ fixedItems = {}
    /\ isGeneratingFixes = TRUE
    /\ validationToFixIdMap = EmptyMap
    /\ fixPending = {[entity |-> "tasks", errors |-> Slice(validationErrors[1], maxErrors)]}
    /\ fixLast = None
    /\ gens = 1
    /\ fixScript \in {Some(r) : r \in FixResponses(Fields)}
    /\ applyMut = None
    /\ applied = None
    /\ invalidated = {}

InitMatch ==
    /\ DataParked /\ PriParked /\ RBParked /\ UiParked /\ ErrParked
    /\ FixGenerating

MatchNext ==
    \/ FixOnSuccess
    \/ handleApplyFix

SpecMatch == InitMatch /\ [][MatchNext]_vars

InitPri == PriInit /\ DataParked /\ FixParked /\ RBParked /\ UiParked /\ ErrParked

SpecPri == InitPri /\ [][PriNext]_vars

InitRB == RBInit /\ DataParked /\ FixParked /\ PriParked /\ UiParked /\ ErrParked

SpecRB == InitRB /\ [][RBNext]_vars

\* The response-error interceptor of a client handles a failed request.
InterceptError ==
    /\ call.op = "intercept" /\ call.out = None
    /\ call' = [call EXCEPT !.out = Some(responseErrorInterceptor(call.error))]
    /\ UNCHANGED <<fixVars, priVars, rbVars,
                   uiVars, errVars>>

\* An unwrapping service operation returns.
ReturnUnwrapped ==
    /\ call.op \in InlineOps \cup HandledOps /\ call.out = None
    /\ call' = [call EXCEPT !.out = Some(unwrap(call.op, call.payload))]
    /\ UNCHANGED <<fixVars, priVars, rbVars,
                   uiVars, errVars>>

\* getUploadedFiles returns or throws.
ReturnUploadedFiles ==
    /\ call.op = "getUploadedFiles" /\ call.out = None
    /\ call' = [call EXCEPT !.out = Some(getUploadedFiles(call.data))]
    /\ UNCHANGED <<fixVars, priVars, rbVars,
                   uiVars, errVars>>

SvcNext ==
    \/ InterceptError
    \/ ReturnUnwrapped
    \/ ReturnUploadedFiles

InitSvc == SvcInit /\ FixParked /\ PriParked /\ RBParked /\ UiParked /\ ErrParked

SpecSvc == InitSvc /\ [][SvcNext]_vars

InitRec ==
    /\ RecInit /\ StoreParked /\ EpParked /\ UpParked /\ ErrParked
    /\ DataParked /\ FixParked /\ PriParked /\ RBParked

SpecRec == InitRec /\ [][RecNext]_vars

InitStore ==
    /\ StoreParked /\ RecParked /\ EpParked /\ UpParked /\ ErrParked
    /\ DataParked /\ FixParked /\ PriParked /\ RBParked

SpecStore == InitStore /\ [][StoreNext]_vars

InitEntity ==
    /\ StoreParked /\ EpInit /\ RecParked /\ UpParked /\ ErrParked
    /\ DataParked /\ FixParked /\ PriParked /\ RBParked

SpecEntity == InitEntity /\ [][EpNext]_vars

InitRace ==
    /\ StoreParked /\ RaceInit /\ RecParked /\ UpParked /\ ErrParked
    /\ DataParked /\ FixParked /\ PriParked /\ RBParked

SpecRace == InitRace /\ [][RaceNext]_vars

\* The requests that change data, on the three pages that issue them: the
\* AI-fix page with a generation in flight, the settings page, or the upload
\* page is open.
InitFail ==
    /\ DataParked /\ RBParked /\ RecParked /\ StoreParked /\ EpParked /\ ErrParked
    /\ \/ FixGenerating /\ PriParked /\ UpParked
       \/ FixParked /\ PriInit /\ priPage = "settings" /\ UpParked
       \/ FixParked /\ PriParked /\ UpInit

FailNext ==
    \/ FixOnSuccess
    \/ handleApplyFix
    \/ ApplyOnSuccess
    \/ ApplyOnError
    \/ loadSystemStatus
    \/ refreshStatus
    \/ handlePriorityChange
    \/ savePriorities
    \/ savePrioritiesSettles
    \/ setSelectedDataType
    \/ onDrop
    \/ handleDelete
    \/ UploadOnSuccess
    \/ UploadOnError
    \/ DeleteOnSuccess
    \/ DeleteOnError

SpecFail == InitFail /\ [][FailNext]_vars

\* The effect of the co-run builder has run for a selection.
ReturnCoRunValue ==
    /\ call.op = "coRunEffect" /\ call.out = None
    /\ call' = [call EXCEPT !.out = Some(coRunValue(call.selectedTasks))]
    /\ UNCHANGED <<fixVars, priVars, rbVars, uiVars, errVars>>

\* A click on the save button of RuleBuilder.
ReturnSave ==
    /\ call.op = "handleSave" /\ call.out = None
    /\ call' = [call EXCEPT !.out = Some(handleSave(call.ruleName, call.ruleDescription,
                                                    call.priority, call.selectedTasks))]
    /\ UNCHANGED <<fixVars, priVars, rbVars, uiVars, errVars>>

\* A row of the table is edited and saved, or deleted: the request that
\* handleEdit / handleDelete of the page sends.
RowAction ==
    /\ call.op \in {"onEdit", "onDelete"} /\ call.out = None
    /\ call' = [call EXCEPT !.out = Some([entity |-> call.entity,
                                          id |-> getRowId(call.entity, call.row,
                                                          call.index)])]
    /\ UNCHANGED <<fixVars, priVars, rbVars, uiVars, errVars>>

\* An action of the data store on its entity arrays.
StoreAction ==
    /\ call.op \in {"setEntities", "addEntity", "updateEntity", "removeEntity"}
    /\ call.out = None
    /\ call' = [call EXCEPT !.out = Some(
            CASE call.op = "setEntities" -> setEntities(call.state, call.entity, call.data)
              [] call.op = "addEntity" -> addEntity(call.state, call.entity, call.data)
              [] call.op = "updateEntity" ->
                    updateEntity(call.state, call.entity, call.id, call.data)
              [] call.op = "removeEntity" ->
                    removeEntity(call.state, call.entity, call.id))]
    /\ UNCHANGED <<fixVars, priVars, rbVars, uiVars, errVars>>

ViewNext ==
    \/ ReturnCoRunValue
    \/ ReturnSave
    \/ RowAction
    \/ StoreAction

InitView == ViewInit /\ FixParked /\ PriParked /\ RBParked /\ UiParked /\ ErrParked

SpecView == InitView /\ [][ViewNext]_vars

-----------------------------------------------------------------------------
(* Claims about the data-service adapters (SpecData) *)

ListReturned == call.op = "getEntities" /\ call.out # None

ValidationReturned == call.op = "getValidationErrors" /\ call.out # None

\* C6: for every list response {success:true, data, pagination:{page, limit,
\* total, totalPages}} and every requested page and limit, getEntities returns
\* items equal to data, and page, limit and totalPages equal to the
\* pagination fields of the response.
C6_PaginatedResponseMapped ==
    (/\ ListReturned
     /\ call.data.kind = "object" /\ call.data.success = "true"
     /\ call.data.data # None /\ call.data.pagination # None)
    => LET out == call.out[1]
           pg  == call.data.pagination[1]
       IN /\ out.items = call.data.data[1]
          /\ out.page = pg.page
          /\ out.limit = pg.limit
          /\ out.totalPages = pg.totalPages

\* C7: for every bare-array list response and every requested page and limit,
\* getEntities returns {items: the array, total: its length, page: 1,
\* limit: the requested limit, totalPages: 1}.
C7_BareArrayIsPageOne ==
    (ListReturned /\ call.data.kind = "array")
    => call.out[1] = [items |-> call.data.items, total |-> Len(call.data.items),
                      page |-> 1, limit |-> call.limit, totalPages |-> 1]

\* C8: getValidationErrors gives every backend error of entity E the ID
\* E-<row> when the error has a row (for every row value, 0 included) and
\* E-unknown only when the row is absent; the ID depends on the entity and
\* the row only.
C8_IdFromEntityAndRow ==
    (/\ ValidationReturned
     /\ call.data.success = "true" /\ call.data.data # None
     /\ call.data.data[1].errors # None)
    => LET es  == call.data.data[1].errors[1]
           out == call.out[1]
       IN /\ Len(out) = Len(es)
          /\ \A i \in 1..Len(es) :
                out[i].id = Chars(call.entity) \o <<"-">> \o
                            (IF es[i].row # NoNum THEN NumToString(es[i].row) ELSE Unknown)

-----------------------------------------------------------------------------
(* Claims about fix-to-error matching (SpecMatch) *)

\* The fixes of the answered request, the errors submitted with it, and the
\* IDs of those errors.
LastFixes == fixLast[1].fixes

LastErrors == fixLast[1].variables.errors

LastErrorIds == {LastErrors[k].id : k \in 1..Len(LastErrors)}

\* The ID of the first submitted error with field f, NoStr when there is none.
FirstWithField(f) ==
    IF \E k \in 1..Len(LastErrors) : LastErrors[k].field = f
    THEN LET k == CHOOSE k \in 1..Len(LastErrors) :
                    /\ LastErrors[k].field = f
                    /\ \A j \in 1..(k - 1) : LastErrors[j].field # f
         IN LastErrors[k].id
    ELSE NoStr

\* The entry of fix i in the working list records the error it was matched to.
MatchedTo(i) == errors[i].originalValidationId

\* The map has an entry exactly for the errors some fix was matched to.
MapKeysAreMatches ==
    DOMAIN validationToFixIdMap = {MatchedTo(i) : i \in 1..Len(LastFixes)} \ {NoStr}

\* C3 as stated: a fix that carries originalValidationId is matched by
\* equality with a submitted error's ID and in no other way; only a fix
\* without it is matched by field name, to the first submitted error with its
\* field; a fix with no match adds no entry to the map.
C3_IdThenFieldOnlyWithoutId ==
    fixLast # None =>
        /\ Len(errors) = Len(LastFixes)
        /\ \A i \in 1..Len(LastFixes) :
            LET ref == LastFixes[i].originalValidationId
            IN MatchedTo(i) = IF ref # NoStr
                              THEN (IF ref \in LastErrorIds THEN ref ELSE NoStr)
                              ELSE FirstWithField(LastFixes[i].field)
        /\ MapKeysAreMatches

\* C3 as amended: a fix whose originalValidationId equals a submitted error's
\* ID is matched to that error; every other fix (without originalValidationId,
\* or with one that equals no submitted error's ID) is matched by field name,
\* to the first submitted error with its field; a fix with no match adds no
\* entry to the map.
C3_IdThenFieldFallback ==
    fixLast # None =>
        /\ Len(errors) = Len(LastFixes)
        /\ \A i \in 1..Len(LastFixes) :
            LET ref == LastFixes[i].originalValidationId
            IN MatchedTo(i) = IF ref # NoStr /\ ref \in LastErrorIds
                              THEN ref
                              ELSE FirstWithField(LastFixes[i].field)
        /\ MapKeysAreMatches

\* A fix whose originalValidationId equals no submitted error's ID has been
\* matched by field name, and another fix has found no match.
C3_Witness ==
    /\ fixLast # None
    /\ \E i \in 1..Len(LastFixes) :
        /\ LastFixes[i].originalValidationId # NoStr
        /\ LastFixes[i].originalValidationId \notin LastErrorIds
        /\ MatchedTo(i) # NoStr
        /\ MatchedTo(i) \in DOMAIN validationToFixIdMap
    /\ \E i \in 1..Len(LastFixes) : MatchedTo(i) = NoStr

\* Fix i carries the ID of a submitted error.
RefersToSubmitted(i) ==
    /\ LastFixes[i].originalValidationId # NoStr
    /\ LastFixes[i].originalValidationId \in LastErrorIds

\* The request issued by the click on Apply goes to the clicked entry's own ID.
RequestAgainstOwnId == applyMut # None => applyMut[1].id = applied[1].id

\* C2: for every fix whose originalValidationId equals a submitted
\* error's ID, the map maps that ID to the fix's rowId, and applying the fix
\* issues the update against fix.rowId.
C2_MappedToRowId ==
    fixLast # None =>
        /\ \A i \in 1..Len(LastFixes) :
            RefersToSubmitted(i) =>
                LET ref == LastFixes[i].originalValidationId
                IN /\ ref \in DOMAIN validationToFixIdMap
                   /\ validationToFixIdMap[ref] = LastFixes[i].rowId
        /\ RequestAgainstOwnId

-----------------------------------------------------------------------------
(* Claims about applying fixes (SpecFix) *)

\* The step is applyFixMutation.onSuccess: it alone leaves queries invalidated.
ApplySucceeds == applyMut # None /\ invalidated' # {}

\* C1: no update request issued by handleApplyFix targets an ID of the
\* synthesized form ^(clients|workers|tasks)-\d+$: applying a fix whose
\* resolved ID has that form is rejected before any request is sent.
C1_NoSynthesizedTarget ==
    applyMut # None => ~MatchesSynthPattern(applyMut[1].id)

\* C4: after every successful apply-fix request against record ID X, the
\* fixed set contains X and every original validation-error ID that the map
\* maps to X.
C4_FixedHoldsTargetAndMapped ==
    [][ApplySucceeds =>
          /\ applyMut[1].id \in fixedItems'
          /\ \A k \in DOMAIN validationToFixIdMap :
                validationToFixIdMap[k] = applyMut[1].id => k \in fixedItems']_vars

\* An apply has just succeeded against a record ID that the map maps a
\* different validation-error ID to, and both are in the fixed set.
C4_Witness ==
    /\ invalidated # {}
    /\ \E k \in DOMAIN validationToFixIdMap :
        /\ validationToFixIdMap[k] # k
        /\ {k, validationToFixIdMap[k]} \subseteq fixedItems

\* C5: after every successful apply-fix request the entry of the applied fix
\* is no longer in the working list, and the apply invalidates the entity list
\* and entity stats queries only, never the validation-errors query.
C5_AppliedEntryDropped ==
    [][ApplySucceeds =>
          /\ \A i \in 1..Len(errors') : errors'[i] # applied[1]
          /\ invalidated' \subseteq {<<"entities", selectedEntity>>,
                                     <<"entity-stats", selectedEntity>>}]_vars

-----------------------------------------------------------------------------
(* Claims about the priority weights (SpecPri) *)

\* C9: with the weights in hundredths, no updatePriorities request is issued
\* from the settings page or the export page while the sum of the three
\* weights differs from 1.0 by more than 0.01: every request goes out with the
\* page's weights, and their sum is 0.99, 1.00 or 1.01.
C9_SaveOnlyWithinTolerance ==
    [][(updateRequest = None /\ updateRequest' # None) =>
          /\ updateRequest'[1] = priorities
          /\ priorities.priorityLevelWeight + priorities.fairnessWeight
                + priorities.costWeight \in (One - Tolerance)..(One + Tolerance)]_vars

\* On the export page a request is in flight that was issued at the edge of
\* the tolerance, and the sliders have since been moved to a sum of 0.98.
C9_Witness ==
    /\ priPage = "export"
    /\ updateRequest # None
    /\ totalWeight(updateRequest[1]) = One - Tolerance
    /\ totalWeight(priorities) = One - 2 * Tolerance

-----------------------------------------------------------------------------
(* Claims about the rule builders (SpecRB) *)

\* C10: the recomputation of a builder never re-triggers itself: the render
\* that the effect's own onChange asked for does not run the effect again,
\* whichever builder is mounted and whatever the state of its list query.
C10_NeverRetriggersItself ==
    [][scheduled = "onChange" => effectRuns' <= effectRuns]_vars

-----------------------------------------------------------------------------
(* Claims about the HTTP clients and the service operations (SpecSvc) *)

Intercepted == call.op = "intercept" /\ call.out # None

\* The URLs whose failures are to stay silent: upload status polling, the
\* /data/ listings and the /ai/ endpoints, as the service modules issue them.
Suppressed(url) ==
    \/ Includes(url, <<"/", "upload", "/", "status">>)
    \/ Includes(url, <<"/", "data", "/">>)
    \/ Includes(url, <<"/", "ai", "/">>)

\* C11: a failed request whose URL is one of the suppressed ones (upload
\* status polling, a /data/ listing, an /ai/ endpoint) produces no
\* notification, and any other failed request produces exactly one.
C11_SilentForSuppressedUrls ==
    Intercepted =>
        Len(call.out[1].toasts) = (IF Suppressed(call.error.url) THEN 0 ELSE 1)

\* C12: on each of the three clients the response-error interceptor returns
\* a rejected promise carrying the original error, whether or not it showed
\* a notification; it never resolves.
C12_AlwaysRejectsWithError ==
    Intercepted =>
        /\ call.out[1].settled = "rejected"
        /\ call.out[1].with = call.error

\* A failure was handled without a notification.
C12_Witness ==
    /\ Intercepted
    /\ call.error.client = "apiWithShortTimeout"
    /\ call.out[1].toasts = <<>>

Unwrapped == call.op \in InlineOps \cup HandledOps /\ call.out # None

\* C13: every unwrapping service operation (rules, AI, data) returns what
\* handleApiResponse returns for the same response: the data field when
\* success is true, the raw payload when success is false, and without a
\* success field the data field if present, else the raw payload.
C13_UnwrapsLikeHandleApiResponse ==
    Unwrapped => call.out[1] = handleApiResponse(call.payload)

FilesReturned == call.op = "getUploadedFiles" /\ call.out # None

StatusEntities(data) ==
    IF data.success = "true" /\ data.data # None /\ data.data[1].entities # None
    THEN data.data[1].entities[1]
    ELSE <<>>

\* The positions of the response's entities that have data, and of those
\* that have data and a file name.
HavingData(es) == {i \in 1..Len(es) : es[i].hasData}

HavingDataAndName(es) == {i \in 1..Len(es) : es[i].hasData /\ es[i].fileName # NoStr}

\* C20 as stated: getUploadedFiles yields exactly one file record for each
\* entity of the status response that has data, and none for an entity
\* without data.
C20_OneRecordPerEntityWithData ==
    (FilesReturned /\ ~call.out[1].threw) =>
        Len(call.out[1].files) = Cardinality(HavingData(StatusEntities(call.data)))

\* C20: getUploadedFiles yields exactly one file record, named after the
\* file, for each entity of the status response that has data and a file
\* name, in the order of the response, and none for any other entity.
C20_OneRecordPerNamedEntityWithData ==
    (FilesReturned /\ ~call.out[1].threw) =>
        LET es    == StatusEntities(call.data)
            kept  == HavingDataAndName(es)
            recs  == call.out[1].files
        IN /\ Len(recs) = Cardinality(kept)
           /\ \A i \in kept :
                recs[Cardinality({k \in kept : k <= i})].filename = es[i].fileName

\* Two entities have data, one of them without a file name, and one record
\* is returned.
C20_Witness ==
    /\ FilesReturned
    /\ Cardinality(HavingData(StatusEntities(call.data))) = 2
    /\ Len(call.out[1].files) = 1

-----------------------------------------------------------------------------
(* Claims about the flags and the cache of the AI-fix page (SpecFix) *)

\* C17: the loading flag of the AI-fix page is true from the moment a
\* fix-errors request is issued until that request settles, and false
\* whenever no request is in flight, under any interleaving of clicks,
\* entity changes and responses.
C17_FlagTracksRequestsInFlight ==
    isGeneratingFixes <=> (fixPending # {})

\* C18: when an apply-fix update succeeds, the cached list of the entity
\* type the update was sent for is invalidated, also when the user selected
\* another entity while the request was in flight.
C18_MutatedEntityInvalidated ==
    [][ApplySucceeds => <<"entities", applyMut[1].entity>> \in invalidated']_vars

-----------------------------------------------------------------------------
(* Claims about the rule-recommendations query (SpecRec) *)

\* C14: when the rule-recommendations endpoint fails with HTTP 400, the query
\* settles with an empty list: it is not retried, it is in no error state,
\* and the view gets [] as its data.
C14_BadRequestIsEmptyList ==
    recHandled = 400 =>
        recQuery = [status |-> "success", data |-> Some(<<>>), error |-> None,
                    fetching |-> FALSE, failureCount |-> 0]

\* The endpoint has answered a fetch with 400 and the query has settled.
C14_Witness ==
    /\ recHandled = 400
    /\ recQuery.status = "success"
    /\ ~recQuery.fetching

-----------------------------------------------------------------------------
(* Claims about the data store and the entity list page (SpecStore, SpecEntity) *)

\* C15: on the entity list page, every list request that is issued because
\* the active filter (search text or status) changed carries page 1, with
\* the limit unchanged.
C15_FilterChangeRequestsPageOne ==
    (issued # None /\ issued[1].cause = "filter") =>
        /\ issued[1].key.page = 1
        /\ issued[1].key.limit = pagination.limit

\* C16: setFilters(f) sets pagination.page to 1, merges f into the filters
\* (the keys of f take f's values, the other keys keep theirs), and leaves
\* limit, total and totalPages as they were.
C16_SetFiltersFrame ==
    storeCall.op = "setFilters" =>
        /\ pagination.page = 1
        /\ pagination.limit = storeCall.pagination.limit
        /\ pagination.total = storeCall.pagination.total
        /\ pagination.totalPages = storeCall.pagination.totalPages
        /\ DOMAIN filters = (DOMAIN storeCall.filters) \cup (DOMAIN storeCall.arg)
        /\ \A k \in DOMAIN filters :
             filters[k] = IF k \in DOMAIN storeCall.arg
                          THEN storeCall.arg[k] ELSE storeCall.filters[k]

\* setFilters was called on a later page of a list of 10 per page, with a
\* status filter while a search filter was set.
C16_Witness ==
    /\ storeCall.op = "setFilters"
    /\ storeCall.pagination.page = 2
    /\ storeCall.pagination.limit = 10
    /\ storeCall.pagination.totalPages = 3
    /\ DOMAIN storeCall.filters = {"search"}
    /\ DOMAIN storeCall.arg = {"status"}

-----------------------------------------------------------------------------
(* Claims about failed requests (SpecFail) *)

\* C19: a failed apply-fix, file upload, file delete or save of the
\* priorities leaves the state of its page untouched: the fixed set, the
\* working list and the ID map; the files of the upload store; the priority
\* weights.
C19_FailureLeavesStateUntouched ==
    [][errorLog' # errorLog =>
         UNCHANGED <<fixedItems, errors, validationToFixIdMap, files, priorities>>]_vars

\* The failure of an apply-fix request was reported while the working list
\* held the generated fixes and an earlier fix was applied.
C19_Witness ==
    /\ errorLog # None
    /\ errorLog[1].op = "applyFix"
    /\ errors # <<>>
    /\ fixedItems # {}

-----------------------------------------------------------------------------
(* Claims about concurrent requests of the AI-fix page (SpecFix, SpecFail) *)

\* C25: when a fix-errors request that was issued for another entity than
\* the selected one settles, its response populates neither the working
\* list nor the ID map.
C25_StaleResponseIgnored ==
    [][\A variables \in fixPending :
          (variables \notin fixPending' /\ variables.entity # selectedEntity)
          => UNCHANGED <<errors, validationToFixIdMap>>]_vars

\* C26: at most one fix-errors request is in flight at any time, under any
\* interleaving of clicks on Generate AI Fixes and entity changes.
C26_OneGenerationInFlight ==
    Cardinality(fixPending) <= 1

\* C28: a successful apply removes only the applied fix from the working
\* list: every other entry, also one for another field of the same record,
\* is still in the list afterwards.
C28_OnlyAppliedFixRemoved ==
    [][ApplySucceeds =>
         \A i \in 1..Len(errors) :
            errors[i] # applied[1] => \E j \in 1..Len(errors') : errors'[j] = errors[i]]_vars

-----------------------------------------------------------------------------
(* Claims about the pagination of the entity list page (SpecEntity) *)

\* C30: in every reachable state of the entity list page the store's page is
\* at least 1 and at most max(1, totalPages) of the latest list response.
C30_PageWithinTotalPages ==
    /\ pagination.page >= 1
    /\ entityData # None =>
         pagination.page <= (IF entityData[1].totalPages > 1
                             THEN entityData[1].totalPages ELSE 1)

-----------------------------------------------------------------------------
(* Claims about the co-run builder, the table rows and the store's arrays
   (SpecView) *)

SaveReturned == call.op = "handleSave" /\ call.out # None

\* The fields of RuleBuilder other than the builder's are filled in validly.
OtherFieldsValid ==
    /\ \E i \in 1..Len(call.ruleName) : call.ruleName[i] # " "
    /\ \E i \in 1..Len(call.ruleDescription) : call.ruleDescription[i] # " "
    /\ call.priority \in 1..10

C22_ConditionHoldsSelectedIds ==
    (call.op = "coRunEffect" /\ call.out # None) =>
        /\ (call.out[1].condition = <<>>) <=> (call.selectedTasks = <<>>)
        /\ \A i \in 1..Len(call.selectedTasks) :
             Includes(call.out[1].condition, <<call.selectedTasks[i]>>)

\* The condition of a selection of two different tasks.
C22_Witness ==
    /\ call.op = "coRunEffect" /\ call.out # None
    /\ Len(call.selectedTasks) = 2
    /\ call.selectedTasks[1] # call.selectedTasks[2]
    /\ Len(call.out[1].condition) = 5

StoreReturned ==
    /\ call.op \in {"setEntities", "addEntity", "updateEntity", "removeEntity"}
    /\ call.out # None

\* C24: setEntities, addEntity, updateEntity and removeEntity for entity type
\* T change only the array of T, and leave the arrays of the other types,
\* the filters, the pagination and the selection unchanged; updateEntity and
\* removeEntity touch only the records whose id is the given id, and do
\* nothing when no record has it.
C24_OnlyOwnSlice ==
    StoreReturned =>
        LET before == call.state
            after  == call.out[1]
            old    == before.entities[call.entity]
            new    == after.entities[call.entity]
            hits   == {i \in 1..Len(old) : old[i].id = call.id}
        IN /\ \A e \in EntityType \ {call.entity} : after.entities[e] = before.entities[e]
           /\ after.filters = before.filters
           /\ after.pagination = before.pagination
           /\ after.selectedItems = before.selectedItems
           /\ call.op = "setEntities" => new = call.data
           /\ call.op = "addEntity" => new = <<call.data>> \o old
           /\ call.op = "updateEntity" =>
                /\ Len(new) = Len(old)
                /\ \A i \in 1..Len(old) :
                     IF i \in hits
                     THEN new[i].id = old[i].id /\ new[i].name = call.data.name
                     ELSE new[i] = old[i]
           /\ call.op = "removeEntity" =>
                /\ Len(new) = Len(old) - Cardinality(hits)
                /\ \A i \in 1..Len(new) : new[i].id # call.id
                /\ hits = {} => new = old

\* A selected record was removed from an array while the other arrays held
\* records.
C24_Witness ==
    /\ StoreReturned
    /\ call.op = "removeEntity" /\ call.entity = "tasks" /\ call.id = "a"
    /\ call.state.selectedItems = <<"a">>
    /\ Len(call.state.entities["tasks"]) = 2
    /\ Len(call.out[1].entities["tasks"]) = 1
    /\ call.state.entities["clients"] # <<>>

\* C27: every update or delete request of the entity table targets the id
\* of the row's record, never a key synthesized for display
\* (entity-<entityId>-<index> or entity-row-<index>).
C27_RequestsTargetRecordId ==
    (call.op \in {"onEdit", "onDelete"} /\ call.out # None) =>
        /\ call.out[1].id = call.row.id
        /\ \A e \in EntityType :
             SubSeq(call.out[1].id, 1, Len(Chars(e)) + 1) # Chars(e) \o <<"-">>

-----------------------------------------------------------------------------
(* Claim about the ignored recommendations (SpecRec) *)

\* C29: after any sequence of ignore and refresh actions a recommendation
\* of the list is hidden exactly when the user ignored that recommendation
\* (stated for lists that hold no recommendation twice).
C29_HiddenIffIgnored ==
    recQuery.data # None =>
        LET recommendations == recQuery.data[1]
        IN (\A i, j \in 1..Len(recommendations) :
                recommendations[i] = recommendations[j] => i = j)
           => \A i \in 1..Len(recommendations) :
                i \notin visibleRecommendations <=> recommendations[i] \in ignoredByUser

-----------------------------------------------------------------------------
(* Claim about an update and a delete of one record in flight (SpecRace) *)

\* The response of the delete of a record was handled before the response
\* of an update of the same record.
UpdateArrivedAfterDelete(id) ==
    \E i, j \in 1..Len(arrived) :
        /\ i < j
        /\ arrived[i] = [kind |-> "delete", id |-> id]
        /\ arrived[j] = [kind |-> "update", id |-> id]

====
